---- MODULE Spec2Model ----
(***************************************************************************)
(* A model of the Stellantis remote-control core of Homey-Stellantis:      *)
(*   - the MQTT command dispatcher  (Lib/Stellantis/src/control.ts,        *)
(*     class StellantisVehicleControl), and                                *)
(*   - the inWebo OTP session engine (otp.ts: classes IWData and Otp).     *)
(* Each part has its own specification; the variables of the other part    *)
(* keep their initial values.                                              *)
(***************************************************************************)
EXTENDS Integers, Sequences, FiniteSets, TLC

(***************************************************************************)
(* Bounds of the model.                                                    *)
(***************************************************************************)
\* sendCommand calls made on one StellantisVehicleControl
MaxCalls == 2
\* connect() calls made on one StellantisVehicleControl
MaxConnects == 1
\* requests one Otp engine sends to the authentication endpoint
MaxRequests == 4
\* public methods called on one Otp engine
MaxOpCalls == 3
\* direct IWData.synchro calls
MaxSynchro == 3
\* numberToBase36 is applied to 0..MaxNumber (and two larger numbers)
MaxNumber == 1300
\* mgf1 is asked for 0..MaxLength bytes
MaxLength == 70
\* OAEP messages are 0..MaxMessage
MaxMessage == 4
\* the clock advances at most MaxTicks milliseconds
MaxTicks == 1
\* at most MaxAttempts calls of refreshTokens
MaxAttempts == 2
\* at most MaxTokenCalls token operations are started
MaxTokenCalls == 1
\* MqttTokenManager.getAccessToken is called at most MaxManagerCalls times
MaxManagerCalls == 3
\* at most MaxAwaiting of these calls are suspended at an await at once
MaxAwaiting == 2
\* the MqttTokenManager's clock advances at most MaxSeconds seconds
MaxSeconds == 1

(***************************************************************************)
(* Program constants.                                                      *)
(***************************************************************************)
\* setTimeout(..., 30000) in sendCommand
CommandTimeoutMs == 30000
\* const MQTT_QOS = 1
MQTT_QOS == 1
\* EXPONENT = parseInt(K_PUB, 16) with K_PUB = '11'
EXPONENT == 17

VARIABLES
    \* ---- StellantisVehicleControl
    client,            \* this.client: "null" or "open"
    connected,         \* this.client.connected (maintained by the mqtt library)
    connPromise,       \* the promise returned by the last connect()
    handshake,         \* the transport's 'connect' event fired since the last connect()
    errorFired,        \* the transport's 'error' event fired since the last connect()
    subPending,        \* topics whose subscribe callback is outstanding
    subLog,            \* per topic, what the last subscribe callback logged
    connectCalls,      \* connect() calls so far
    disconnectCalls,   \* disconnect() calls so far
    responseHandlers,  \* this.responseHandlers: correlation id -> closure (its call), 0 = no entry
    timer,             \* per call: delay of the armed timeout, 0 = not armed / cleared / fired
    pubCb,             \* per call: the publish callback is outstanding
    corr,              \* per call: the correlation id it generated, 0 = none
    promise,           \* per call: state of the promise sendCommand returned
    published,         \* per call: messages handed to client.publish
    pubQos,            \* per call: the qos of its last publish
    invoked,           \* per call: times its response handler closure ran
    nCalls,            \* sendCommand calls so far
    nextId,            \* uuid/timestamp source: ids handed out so far
    \* ---- Otp (the inWebo session engine) and its IWData
    otp,               \* the fields of the Otp object; otp.data is its IWData
    pc,                \* where the engine is suspended: "idle", "setup", "finalize", "ms"
    call,              \* the public method in progress, and getOtpCode's round
    trace,             \* requests sent, replies received and values returned, in order
                       \* (SpecSynchro: the Kma argument of each synchro call)
    synchroCalls,      \* direct IWData.synchro calls (SpecSynchro)
    \* ---- the module's functions, applied on their own
    arg,               \* the arguments the function is applied to
    res,               \* <<what it returned>>, <<>> before it is applied
    \* ---- StellantisClient (one brand), the app and the Homey settings store
    now,               \* Date.now()
    objects,           \* the token records the settings store holds, by identity
    settings,          \* homey.settings: key -> identity of the record stored, 0 = not set
    getCopies,         \* settings.get hands out a copy (TRUE) or the stored object itself
    tokens,            \* this.tokens: a reference to a token record, or null
    accessToken,       \* this.accessToken
    constructed,       \* the StellantisClient has been constructed
    threads,           \* per asynchronous operation: where it is suspended, its locals
    tlog,              \* what the token operations did, in order
    attempts,          \* refreshTokens calls so far
    tokenCalls,        \* token operations started so far
    \* ---- MqttTokenManager
    manager,           \* its fields, the clock, and where each getAccessToken call is
    mlog,              \* what each getAccessToken call did, in order
    \* ---- StellantisRemoteClient.validateOTP
    flow,              \* where validateOTP is, and what it returned
    durable            \* settings 'stellantis_tokens_otpState_<brand>': <<>> or <<snapshot>>

dvars == <<client, connected, connPromise, handshake, errorFired, subPending, subLog,
           connectCalls, disconnectCalls, responseHandlers, timer, pubCb, corr,
           promise, published, pubQos, invoked, nCalls, nextId>>

vars == <<client, connected, connPromise, handshake, errorFired, subPending, subLog,
          connectCalls, disconnectCalls, responseHandlers, timer, pubCb, corr,
          promise, published, pubQos, invoked, nCalls, nextId,
          otp, pc, call, trace, synchroCalls, arg, res,
          now, objects, settings, getCopies, tokens, accessToken, constructed,
          threads, tlog, attempts, tokenCalls,
          manager, mlog, flow, durable>>

ovars == <<otp, pc, call, trace, synchroCalls>>

pvars == <<arg, res>>

tvars == <<now, objects, settings, getCopies, tokens, accessToken, constructed,
           threads, tlog, attempts, tokenCalls>>

mvars == <<manager, mlog>>

fvars == <<flow, durable>>

\* What the dispatcher, the engine, a function applied on its own, the token
\* operations and the MqttTokenManager leave alone.
notDispatch == <<ovars, pvars, tvars, mvars, fvars>>
notOtp == <<dvars, pvars, tvars, mvars, fvars>>
notPure == <<dvars, ovars, tvars, mvars, fvars>>
notTokens == <<dvars, ovars, pvars, mvars, fvars>>
notManager == <<dvars, ovars, pvars, tvars, fvars>>
notValidate == <<dvars, pvars, tvars, mvars>>

(***************************************************************************)
(* The command dispatcher: StellantisVehicleControl.                       *)
(***************************************************************************)
Calls == 1..MaxCalls

\* Correlation ids a message can carry: 0 is an absent (falsy) correlation_id,
\* 1..MaxCalls are ids sendCommand can generate, MaxCalls+1 was never issued.
CorrIds == 1..(MaxCalls + 1)

\* The two topics connect() subscribes to.
Topics == {"from/cid", "events/vin"}

\* JSON values of return_code / process_code: the string '0', another
\* string, the number 0, or the field is absent.
Codes == {"str0", "str1", "num0", "absent"}

\* The (return_code, process_code) pairs tried: success by either field,
\* success by process_code beside a failing return_code, failure, a numeric
\* zero, and no status at all.
StatusPairs ==
    {<<"str0", "absent">>, <<"absent", "str0">>, <<"str1", "str0">>,
     <<"str1", "absent">>, <<"num0", "absent">>, <<"absent", "absent">>}

\* A received MQTT message: json = FALSE is a body JSON.parse rejects.
Messages ==
    {[json |-> TRUE, corr |-> c, return_code |-> sp[1], process_code |-> sp[2]] :
        c \in 0..(MaxCalls + 1), sp \in StatusPairs}
    \cup {[json |-> FALSE, corr |-> 0, return_code |-> "absent", process_code |-> "absent"]}

\* A promise settles once: resolve/reject on a settled promise does nothing.
Settle(p, k, outcome) ==
    IF p[k] = "pending" THEN [p EXCEPT ![k] = outcome] ELSE p

\* uuidv4() + Date.now(): a value no earlier call received.
NewCorrelationId == nextId + 1

\* Mutant of IsSuccess: success only when both codes are '0'.
IsSuccessBothCodes(m) == m.return_code = "str0" /\ m.process_code = "str0"

\* response.return_code === '0' || response.process_code === '0'
IsSuccess(m) == m.return_code = "str0" \/ m.process_code = "str0"

cmdVars == <<responseHandlers, timer, pubCb, corr, promise, published, pubQos,
             invoked, nCalls, nextId>>
connVars == <<client, connected, connPromise, handshake, errorFired, subPending,
              subLog, connectCalls, disconnectCalls>>

\* Mutant of Connect: resolve() called outside the 'connect' handler.
ConnectResolvesAtOnce ==
    /\ connectCalls < MaxConnects
    /\ client = "null"
    /\ client' = "open"
    /\ connected' = FALSE
    /\ connPromise' = "resolved"
    /\ handshake' = FALSE
    /\ errorFired' = FALSE
    /\ subPending' = {}
    /\ connectCalls' = connectCalls + 1
    /\ UNCHANGED <<subLog, disconnectCalls>>
    /\ UNCHANGED cmdVars
    /\ UNCHANGED notDispatch

\* connect(): creates the client, registers the event handlers, returns a
\* pending promise.
Connect ==
    /\ connectCalls < MaxConnects
    /\ client = "null"
    /\ client' = "open"
    /\ connected' = FALSE
    /\ connPromise' = "pending"
    /\ handshake' = FALSE
    /\ errorFired' = FALSE
    /\ subPending' = {}
    /\ connectCalls' = connectCalls + 1
    /\ UNCHANGED <<subLog, disconnectCalls>>
    /\ UNCHANGED cmdVars
    /\ UNCHANGED notDispatch

\* client.on('connect'): subscribe to both topics, then resolve().  The
\* library reconnects by itself, so the event can fire again after a close.
OnConnect ==
    /\ client = "open"
    /\ ~connected
    /\ connected' = TRUE
    /\ handshake' = TRUE
    /\ subPending' = Topics
    /\ connPromise' = IF connPromise = "pending" THEN "resolved" ELSE connPromise
    /\ UNCHANGED <<client, errorFired, subLog, connectCalls, disconnectCalls>>
    /\ UNCHANGED cmdVars
    /\ UNCHANGED notDispatch

\* The callback of client.subscribe(topic, ...): logs, nothing else.
SubscribeCallback(topic, err) ==
    /\ topic \in subPending
    /\ subPending' = subPending \ {topic}
    /\ subLog' = [subLog EXCEPT ![topic] = IF err THEN "error" ELSE "subscribed"]
    /\ UNCHANGED <<client, connected, connPromise, handshake, errorFired,
                   connectCalls, disconnectCalls>>
    /\ UNCHANGED cmdVars
    /\ UNCHANGED notDispatch

\* client.on('error'): reject(error).
OnError ==
    /\ client = "open"
    /\ errorFired' = TRUE
    /\ connPromise' = IF connPromise = "pending" THEN "rejected" ELSE connPromise
    /\ UNCHANGED <<client, connected, handshake, subPending, subLog, connectCalls,
                   disconnectCalls>>
    /\ UNCHANGED cmdVars
    /\ UNCHANGED notDispatch

\* client.on('close'): the connection dropped; only logs.
OnClose ==
    /\ client = "open"
    /\ connected
    /\ connected' = FALSE
    /\ UNCHANGED <<client, connPromise, handshake, errorFired, subPending, subLog,
                   connectCalls, disconnectCalls>>
    /\ UNCHANGED cmdVars
    /\ UNCHANGED notDispatch

\* sendCommand(service, params), up to the return of its promise.
SendCommand ==
    /\ nCalls < MaxCalls
    /\ nCalls' = nCalls + 1
    /\ LET k == nCalls + 1
           id == NewCorrelationId
       IN  IF ~(client = "open" /\ connected)
           THEN /\ promise' = [promise EXCEPT ![k] = "notconnected"]
                /\ UNCHANGED <<responseHandlers, timer, pubCb, corr, published,
                               pubQos, invoked, nextId>>
           ELSE /\ nextId' = id
                /\ corr' = [corr EXCEPT ![k] = id]
                /\ promise' = [promise EXCEPT ![k] = "pending"]
                /\ timer' = [timer EXCEPT ![k] = CommandTimeoutMs]
                /\ responseHandlers' = [responseHandlers EXCEPT ![id] = k]
                /\ published' = [published EXCEPT ![k] = @ + 1]
                /\ pubQos' = [pubQos EXCEPT ![k] = MQTT_QOS]
                /\ pubCb' = [pubCb EXCEPT ![k] = TRUE]
                /\ UNCHANGED invoked
    /\ UNCHANGED connVars
    /\ UNCHANGED notDispatch

\* Mutant of TimerFire: the timeout rejects but leaves the waiter in the map.
TimerFireKeepsWaiter(k) ==
    /\ timer[k] # 0
    /\ timer' = [timer EXCEPT ![k] = 0]
    /\ promise' = Settle(promise, k, "timeout")
    /\ UNCHANGED <<responseHandlers, pubCb, corr, published, pubQos, invoked, nCalls, nextId>>
    /\ UNCHANGED connVars
    /\ UNCHANGED notDispatch

\* Mutant of TimerFire: the timeout publishes the command again and re-arms.
TimerFireRetries(k) ==
    /\ timer[k] # 0
    /\ published[k] < 2
    /\ published' = [published EXCEPT ![k] = @ + 1]
    /\ UNCHANGED <<timer, responseHandlers, promise, pubCb, corr, pubQos, invoked,
                   nCalls, nextId>>
    /\ UNCHANGED connVars
    /\ UNCHANGED notDispatch

\* The setTimeout callback of call k.
TimerFire(k) ==
    /\ timer[k] # 0
    /\ timer' = [timer EXCEPT ![k] = 0]
    /\ responseHandlers' =
           [c \in CorrIds |-> IF c = corr[k] THEN 0 ELSE responseHandlers[c]]
    /\ promise' = Settle(promise, k, "timeout")
    /\ UNCHANGED <<pubCb, corr, published, pubQos, invoked, nCalls, nextId>>
    /\ UNCHANGED connVars
    /\ UNCHANGED notDispatch

\* Mutant of PublishCallback: a publish error clears the timer and the waiter
\* but forgets to reject.
PublishCallbackNoReject(k, error) ==
    /\ pubCb[k]
    /\ pubCb' = [pubCb EXCEPT ![k] = FALSE]
    /\ IF error
       THEN /\ timer' = [timer EXCEPT ![k] = 0]
            /\ responseHandlers' =
                   [c \in CorrIds |-> IF c = corr[k] THEN 0 ELSE responseHandlers[c]]
            /\ UNCHANGED promise
       ELSE UNCHANGED <<timer, responseHandlers, promise>>
    /\ UNCHANGED <<corr, published, pubQos, invoked, nCalls, nextId>>
    /\ UNCHANGED connVars
    /\ UNCHANGED notDispatch

\* The callback of client.publish for call k, with or without an error.
PublishCallback(k, error) ==
    /\ pubCb[k]
    /\ pubCb' = [pubCb EXCEPT ![k] = FALSE]
    /\ IF error
       THEN /\ timer' = [timer EXCEPT ![k] = 0]
            /\ responseHandlers' =
                   [c \in CorrIds |-> IF c = corr[k] THEN 0 ELSE responseHandlers[c]]
            /\ promise' = Settle(promise, k, "publisherror")
       ELSE UNCHANGED <<timer, responseHandlers, promise>>
    /\ UNCHANGED <<corr, published, pubQos, invoked, nCalls, nextId>>
    /\ UNCHANGED connVars
    /\ UNCHANGED notDispatch

\* The closure sendCommand stored for call k, applied to a response.
ResponseHandler(k, m) ==
    /\ timer' = [timer EXCEPT ![k] = 0]
    /\ promise' = Settle(promise, k, IF IsSuccess(m) THEN "resolved" ELSE "commandfailed")
    /\ invoked' = [invoked EXCEPT ![k] = @ + 1]

\* Mutant of HandleMessage: the response goes to whichever waiter is
\* registered, without looking the correlation id up.
HandleMessageAnyWaiter(m) ==
    /\ handshake
    /\ IF m.json /\ m.corr # 0 /\ (\E c \in CorrIds : responseHandlers[c] # 0)
       THEN LET c == CHOOSE c \in CorrIds : responseHandlers[c] # 0
            IN  /\ ResponseHandler(responseHandlers[c], m)
                /\ responseHandlers' = [responseHandlers EXCEPT ![c] = 0]
       ELSE UNCHANGED <<timer, promise, invoked, responseHandlers>>
    /\ UNCHANGED <<pubCb, corr, published, pubQos, nCalls, nextId>>
    /\ UNCHANGED connVars
    /\ UNCHANGED notDispatch

\* Mutant of HandleMessage: the handler is called but the waiter stays in
\* the map.
HandleMessageKeepsWaiter(m) ==
    /\ handshake
    /\ IF m.json /\ m.corr # 0 /\ responseHandlers[m.corr] # 0
       THEN /\ ResponseHandler(responseHandlers[m.corr], m)
            /\ UNCHANGED responseHandlers
       ELSE UNCHANGED <<timer, promise, invoked, responseHandlers>>
    /\ UNCHANGED <<pubCb, corr, published, pubQos, nCalls, nextId>>
    /\ UNCHANGED connVars
    /\ UNCHANGED notDispatch

\* handleMessage(topic, message), called from client.on('message').
HandleMessage(m) ==
    /\ handshake
    /\ IF m.json /\ m.corr # 0 /\ responseHandlers[m.corr] # 0
       THEN /\ ResponseHandler(responseHandlers[m.corr], m)
            /\ responseHandlers' = [responseHandlers EXCEPT ![m.corr] = 0]
       ELSE UNCHANGED <<timer, promise, invoked, responseHandlers>>
    /\ UNCHANGED <<pubCb, corr, published, pubQos, nCalls, nextId>>
    /\ UNCHANGED connVars
    /\ UNCHANGED notDispatch

\* disconnect()
Disconnect ==
    /\ disconnectCalls <= MaxConnects
    /\ disconnectCalls' = disconnectCalls + 1
    /\ IF client # "null"
       THEN /\ client' = "null"
            /\ connected' = FALSE
       ELSE UNCHANGED <<client, connected>>
    /\ UNCHANGED <<connPromise, handshake, errorFired, subPending, subLog, connectCalls>>
    /\ UNCHANGED cmdVars
    /\ UNCHANGED notDispatch

(***************************************************************************)
(* The OTP session engine: classes IWData and Otp.                         *)
(*                                                                         *)
(* Strings the engine only stores and compares are strings here.  SHA-256, *)
(* AES and RSA-OAEP are symbolic: a digest or a ciphertext is the tuple of *)
(* what went into it, so two of them are equal exactly when their inputs   *)
(* are.  An empty string that later holds such a value is the empty tuple. *)
(***************************************************************************)
Null == "<null>"          \* null
Absent == "<undefined>"   \* a field the parsed XML does not have
Zero == "<0>"             \* the number 0, as the XML parser yields for <x>0</x>
Empty == <<>>             \* '' in a field that holds digests or ciphertexts
AbsentT == <<"<undefined>">>   \* an absent field that would hold a ciphertext

\* JavaScript truthiness of a stored or received string (or null, undefined, 0).
Truthy(x) == x \notin {Null, Absent, Zero, ""}
\* JavaScript truthiness of a field that holds digests or ciphertexts.
TruthyT(x) == x \notin {Empty, AbsentT}

\* parseInt(x) of the numeric strings the replies carry.
ParseInt(x) == CASE x = "0" -> 0 [] x = "1" -> 1 [] x = "2" -> 2 [] x = "5" -> 5
                 [] x = "7" -> 7 [] OTHER -> -1

\* `${x}` in a template literal.
Str(x) == IF x = Null THEN "null" ELSE IF x = Absent THEN "undefined" ELSE x

\* sha256Hash(data)
sha256Hash(data) == <<"sha256", data>>

\* RSA-OAEP: what the server wraps under a modulus, and decodeOaep(enc, key):
\* the payload when `key` is the modulus it was wrapped under, else a throw.
Wrapped(payload, modulus) == <<"oaep", payload, modulus>>
CanDecode(enc, key) == enc # AbsentT /\ key # Absent /\ enc[3] = key
decodeOaep(enc, key) == enc[2]

\* Mutant of IWDataSynchro: every reply re-seeds the keys.
IWDataSynchroOverwrites(d, xml, kma) ==
    [d EXCEPT !.iwTsync = IF Truthy(xml.tsync) THEN xml.tsync ELSE @,
              !.iwid = IF Truthy(xml.id) THEN xml.id ELSE @,
              !.iwK0 = kma,
              !.iwK1 = kma]

\* IWData.synchro(xml, kma)
IWDataSynchro(d, xml, kma) ==
    [d EXCEPT !.iwTsync = IF Truthy(xml.tsync) THEN xml.tsync ELSE @,
              !.iwid = IF Truthy(xml.id) THEN xml.id ELSE @,
              !.iwK0 = IF ~TruthyT(@) THEN kma ELSE @,
              !.iwK1 = IF ~TruthyT(@) THEN kma ELSE @]

\* new IWData(parent)
NewIWData ==
    [iwid |-> "", iwTsync |-> "0", iwK0 |-> Empty, iwK1 |-> Empty,
     iwsecid |-> "", iwsecval |-> Empty, iwsecn |-> 0]

\* new Otp(inweboAccessId, deviceId), then otp['smsCode'] and otp['codepin']
\* as validateOTP sets them.
NewOtp(macid, deviceId, salt, sms, pin) ==
    [Kiw |-> Null, pinmode |-> Null, Kfact |-> Null, cipher |-> Null,
     iwalea |-> salt, device_id |-> deviceId, codepin |-> pin, challenge |-> "",
     action |-> "", version |-> "0.2.11", macid |-> macid, smsCode |-> sms,
     mode |-> "activate", defi |-> 0, otp_count |-> 0, data |-> NewIWData]

\* getSerial()
getSerial(e) == <<e.device_id, "/_/", e.iwalea>>

\* Mutant of generateKma: the key is derived from the session id the server
\* issued instead of the device id.
generateKmaFromSessionId(e, codepin) ==
    <<"sha256/32", Str(codepin), ";", <<e.data.iwid, "/_/", e.iwalea>>>>

\* generateKma(codepin): the first 32 hex characters of the digest.
generateKma(e, codepin) == <<"sha256/32", Str(codepin), ";", getSerial(e)>>

\* Mutant of getR: K0 is the key whatever the action.
getRAlwaysK0(e) ==
    LET iw == e.data.iwK0
    IN  [R0 |-> sha256Hash(<<e.challenge, ";", iw, ";", getSerial(e)>>),
         R1 |-> sha256Hash(<<e.challenge, ";", iw, ";", e.data.iwK1>>),
         R2 |-> sha256Hash(<<e.challenge, ";", iw, ";",
                             IF e.action = "synchro" THEN Str(e.codepin) ELSE "">>)]

\* getR()
getR(e) ==
    LET iw == IF e.action = "upgrade" THEN e.data.iwK1 ELSE e.data.iwK0
    IN  [R0 |-> sha256Hash(<<e.challenge, ";", iw, ";", getSerial(e)>>),
         R1 |-> sha256Hash(<<e.challenge, ";", iw, ";", e.data.iwK1>>),
         R2 |-> sha256Hash(<<e.challenge, ";", iw, ";",
                             IF e.action = "synchro" THEN Str(e.codepin) ELSE "">>)]

\* Mutant of getOtpCodeValue: the challenge is hashed into the code as well.
getOtpCodeValueWithChallenge(e) ==
    <<"base36",
      sha256Hash(<<e.data.iwK1, ":", e.defi, ":", e.data.iwsecval, ":", e.challenge>>)>>

\* _getOtpCode(): base 36 of a number cut from the digest of K1:defi:secval.
getOtpCodeValue(e) ==
    <<"base36", sha256Hash(<<e.data.iwK1, ":", e.defi, ":", e.data.iwsecval>>)>>

(***************************************************************************)
(* The server's replies, as request() returns them (parsed ActionSetup /   *)
(* ActionFinalize elements), and Failed for a request() that throws.       *)
(***************************************************************************)
Reply(err) ==
    [err |-> err, Kfact |-> Absent, Kiw |-> AbsentT, pinmode |-> Absent,
     challenge |-> Absent, defi |-> Absent, J |-> Absent, ms_n |-> Absent,
     ms_key |-> AbsentT, ms_id |-> Absent, s_id |-> Absent, tsync |-> Absent,
     id |-> Absent]

Failed == Reply("<request threw>")

SetupReplies ==
    { [Reply("OK") EXCEPT !.Kfact = "kfact1", !.Kiw = Wrapped("kiw1", "kfact1"),
                          !.pinmode = "1"],
      [Reply("OK") EXCEPT !.challenge = "chal1"],
      Reply("OK"),
      Reply("NOK"),
      [Reply("NOK") EXCEPT !.Kfact = "kfact2", !.Kiw = Wrapped("kiw2", "kfact2"),
                           !.pinmode = "1", !.challenge = "chal3"],
      Failed }

FinalizeReplies ==
    { Reply("NOK"),
      [Reply("OK") EXCEPT !.tsync = "ts1", !.id = "id1"],
      [Reply("OK") EXCEPT !.tsync = "ts2", !.defi = "5"],
      [Reply("OK") EXCEPT !.id = "id2", !.defi = "7", !.J = "1"],
      [Reply("OK") EXCEPT !.tsync = "ts1", !.id = "id1", !.ms_n = "1",
                          !.challenge = "chal2", !.ms_key = Wrapped("mskey1", "kfact1"),
                          !.ms_id = "msid1", !.s_id = "sid1"],
      [Reply("OK") EXCEPT !.ms_n = "2", !.challenge = "chal2",
                          !.ms_key = Wrapped("mskey1", "kfact1"),
                          !.ms_id = "msid1", !.s_id = "sid1"],
      [Reply("OK") EXCEPT !.tsync = Zero, !.ms_n = "0"],
      Failed }

\* crypto.randomBytes(16)
RandomValues == {"rnd1"}

\* Mutant of MoreThanOne: the limit is off by one.
MoreThanTwo(ms_n) == ParseInt(ms_n) > 2
\* parseInt(xml.ms_n) > 1
MoreThanOne(ms_n) == ParseInt(ms_n) > 1
\* Mutant of NoneRequested: the test for a zero count is left out.
NoneRequestedOnlyAbsent(ms_n) == ~Truthy(ms_n)

\* !xml.ms_n || xml.ms_n == 0
NoneRequested(ms_n) == ~Truthy(ms_n) \/ ms_n = "0"

(***************************************************************************)
(* The engine's methods, cut at each await of request().                   *)
(***************************************************************************)
\* activationStart up to its request: the Setup request.
SetupRequest(e) ==
    [action |-> "ActionSetup", mode |-> e.mode, id |-> e.data.iwid,
     lastsync |-> e.data.iwTsync, macid |-> e.macid,
     sid |-> IF e.mode = "otp" THEN e.data.iwsecid ELSE Absent,
     code |-> IF e.mode = "activate" THEN e.smsCode ELSE Absent]

\* The message of an error: none, a fixed text, JSON.stringify of a reply
\* (ConfigException's constructor), or a prefix put before another message.
NoMessage == <<>>
Text(s) == <<s>>
Json(xml) == <<"json", xml>>
Prefixed(s, msg) == <<s, msg>>
RequestFailed == Text("request failed")
DecodeFailed == Text("Incorrect decryption")

\* Mutant of SetupReceive: what the reply carries is stored before its status
\* is looked at.
SetupReceiveStoresFirst(e, xml) ==
    IF xml = Failed THEN [e |-> e, out |-> "Error", msg |-> RequestFailed]
    ELSE LET e1 == IF e.mode = "activate"
                   THEN [e EXCEPT !.Kfact = xml.Kfact, !.pinmode = xml.pinmode]
                   ELSE [e EXCEPT !.challenge = xml.challenge]
             kma == generateKma(e1, e1.codepin)
         IN  IF xml.err # "OK" THEN [e |-> e1, out |-> "ConfigException", msg |-> Json(xml)]
             ELSE IF e.mode # "activate" THEN [e |-> e1, out |-> "true", msg |-> NoMessage]
             ELSE IF ~CanDecode(xml.Kiw, xml.Kfact)
             THEN [e |-> e1, out |-> "Error", msg |-> DecodeFailed]
             ELSE [e |-> [e1 EXCEPT !.Kiw = decodeOaep(xml.Kiw, xml.Kfact),
                                    !.cipher = decodeOaep(xml.Kiw, xml.Kfact),
                                    !.data.iwK0 = kma,
                                    !.data.iwK1 = kma],
                   out |-> "true", msg |-> NoMessage]

\* activationStart from the Setup reply on: the engine after it and what the
\* call returns or throws.  init() assigns Kfact and pinmode before
\* decodeOaep can throw.
SetupReceive(e, xml) ==
    IF xml = Failed THEN [e |-> e, out |-> "Error", msg |-> RequestFailed]
    ELSE IF xml.err # "OK" THEN [e |-> e, out |-> "ConfigException", msg |-> Json(xml)]
    ELSE IF e.mode = "activate" THEN
        LET e1 == [e EXCEPT !.Kfact = xml.Kfact, !.pinmode = xml.pinmode]
            kma == generateKma(e1, e1.codepin)
        IN  IF ~CanDecode(xml.Kiw, xml.Kfact)
            THEN [e |-> e1, out |-> "Error", msg |-> DecodeFailed]
            ELSE [e |-> [e1 EXCEPT !.Kiw = decodeOaep(xml.Kiw, xml.Kfact),
                                   !.cipher = decodeOaep(xml.Kiw, xml.Kfact),
                                   !.data.iwK0 = kma,
                                   !.data.iwK1 = kma],
                  out |-> "true", msg |-> NoMessage]
    ELSE IF e.mode = "otp"
    THEN [e |-> [e EXCEPT !.challenge = xml.challenge], out |-> "true", msg |-> NoMessage]
    ELSE [e |-> e, out |-> "true", msg |-> NoMessage]

\* activationFinalize up to its first request: whether it throws.
FinalizeThrowsEarly(e) ==
    e.mode = "activate" /\ (~Truthy(e.cipher) \/ ~Truthy(e.codepin))

\* activationFinalize up to its first request: the Finalize request.
FinalizeRequest(e) ==
    LET kma == generateKma(e, e.codepin)
    IN  [action |-> "ActionFinalize", mode |-> e.mode, id |-> e.data.iwid,
         lastsync |-> e.data.iwTsync, macid |-> e.macid, R |-> getR(e),
         sid |-> IF e.mode = "otp" THEN e.data.iwsecid ELSE Absent,
         code |-> IF e.mode = "activate" THEN e.smsCode ELSE Absent,
         Kma |-> IF e.mode = "activate" THEN Wrapped(kma, e.cipher) ELSE AbsentT,
         pin |-> IF e.mode = "activate" THEN Wrapped(e.codepin, e.cipher) ELSE AbsentT,
         ms_id0 |-> Absent, ms_val0 |-> AbsentT]

\* The follow-up Finalize request in ms mode.
MsRequest(e, xml, rnd) ==
    [action |-> "ActionFinalize", mode |-> "ms", id |-> e.data.iwid,
     lastsync |-> e.data.iwTsync, macid |-> e.macid, R |-> getR(e),
     sid |-> Absent, code |-> Absent, Kma |-> AbsentT, pin |-> AbsentT,
     ms_id0 |-> xml.ms_id,
     ms_val0 |-> Wrapped(rnd, decodeOaep(xml.ms_key, e.Kfact))]

\* Mutant of FinalizeReceive: the reply is synchronised before its status is
\* looked at.
FinalizeReceiveSynchroFirst(e, xml, rnd) ==
    IF xml = Failed THEN [e |-> e, out |-> "Error", msg |-> RequestFailed]
    ELSE LET e1 == [e EXCEPT !.data = IWDataSynchro(e.data, xml, generateKma(e, e.codepin)),
                             !.challenge = xml.challenge]
         IN  IF xml.err # "OK" THEN [e |-> e1, out |-> "NOK", msg |-> NoMessage]
             ELSE [e |-> e1, out |-> "OK", msg |-> NoMessage]

\* activationFinalize from the first reply on, up to its return, its throw or
\* its ms-mode request (out = "ms", with the engine as it is at that await).
FinalizeReceive(e, xml, rnd) ==
    IF xml = Failed THEN [e |-> e, out |-> "Error", msg |-> RequestFailed]
    ELSE IF xml.err # "OK" THEN [e |-> e, out |-> "NOK", msg |-> NoMessage]
    ELSE
        LET kma == generateKma(e, e.codepin)
            e1 == [e EXCEPT !.data = IWDataSynchro(e.data, xml, kma)]
        IN  IF e1.mode = "otp" THEN
                IF ~Truthy(xml.defi)
                THEN [e |-> e1, out |-> "ConfigException",
                      msg |-> Text("Missing defi in response")]
                ELSE LET e2 == [e1 EXCEPT !.defi = ParseInt(xml.defi)]
                     IN  IF Truthy(xml.J)
                         THEN [e |-> e2, out |-> "OTP_TWICE", msg |-> NoMessage]
                         ELSE [e |-> e2, out |-> "OK", msg |-> NoMessage]
            ELSE IF NoneRequested(xml.ms_n) THEN [e |-> e1, out |-> "OK", msg |-> NoMessage]
            ELSE IF MoreThanOne(xml.ms_n)
            THEN [e |-> e1, out |-> "Error", msg |-> Text("Multiple ms_n not implemented")]
            ELSE
                LET e2 == [e1 EXCEPT !.challenge = xml.challenge, !.action = "synchro"]
                IN  IF ~CanDecode(xml.ms_key, e2.Kfact)
                    THEN [e |-> e2, out |-> "Error", msg |-> DecodeFailed]
                    ELSE [e |-> [e2 EXCEPT !.data.iwsecval = <<"aes-128-ecb", kma, rnd>>,
                                           !.data.iwsecid = xml.s_id,
                                           !.data.iwsecn = 1],
                          out |-> "ms", msg |-> NoMessage]

\* Mutant of MsReceive: the id the server issued becomes the device id.
MsReceiveAdoptsId(e, xml2) ==
    IF xml2 = Failed THEN [e |-> e, out |-> "Error", msg |-> RequestFailed]
    ELSE [e |-> [e EXCEPT !.data = IWDataSynchro(e.data, xml2, generateKma(e, e.codepin)),
                          !.device_id = IF Truthy(xml2.id) THEN xml2.id ELSE @],
          out |-> "OK", msg |-> NoMessage]

\* Mutant of MsReceive: the ms-mode reply is not synchronised.
MsReceiveNoSynchro(e, xml2) ==
    IF xml2 = Failed THEN [e |-> e, out |-> "Error", msg |-> RequestFailed]
    ELSE [e |-> e, out |-> "OK", msg |-> NoMessage]

\* activationFinalize from the ms-mode reply on.
MsReceive(e, xml2) ==
    IF xml2 = Failed THEN [e |-> e, out |-> "Error", msg |-> RequestFailed]
    ELSE [e |-> [e EXCEPT !.data = IWDataSynchro(e.data, xml2, generateKma(e, e.codepin))],
          out |-> "OK", msg |-> NoMessage]

(***************************************************************************)
(* The engine as a state machine.  trace records, in order, every request  *)
(* sent ("req"), every reply received ("reply") and every return or throw  *)
(* of a public method ("ret": what it returned or the name of what it      *)
(* threw, the OTP code if it returned one, the message if it threw).       *)
(***************************************************************************)
Req(r) == [ev |-> "req", req |-> r]
Rep(x) == [ev |-> "reply", xml |-> x]
Ret(op, value, code, msg) ==
    [ev |-> "ret", op |-> op, value |-> value, code |-> code, msg |-> msg]

Requests(t) == SelectSeq(t, LAMBDA x : x.ev = "req")
Returns(t) == SelectSeq(t, LAMBDA x : x.ev = "ret")
CanSend == Len(Requests(trace)) < MaxRequests
\* A public method can be called: the engine is idle (one derivation at a
\* time) and the model's budget of calls and requests is not used up.
CanCall == pc = "idle" /\ CanSend /\ Len(Returns(trace)) < MaxOpCalls

Idle == [op |-> "none", round |-> 0]

\* A new engine on which nothing was set, and one with the SMS code and PIN
\* set on it as validateOTP does.
BareOtp == NewOtp("macid1", "dev1", "salt1", Null, Null)
ActivatingOtp == NewOtp("macid1", "dev1", "salt1", "1234", "5678")

(***************************************************************************)
(* Token records (TokenData) and references to them.  A reference is the   *)
(* identity of an object the settings store holds, or a private copy; what *)
(* homey.settings.get and set do with the object is not in this            *)
(* repository: they hand the stored object itself in and out, or a copy.   *)
(***************************************************************************)
\* Date.now() when the model starts.
StartTime == 1000000
\* const fiveMinutes = 5 * 60 * 1000
FiveMinutes == 5 * 60 * 1000

TokenData(at, rt, exp) ==
    [present |-> TRUE, accessToken |-> at, refreshToken |-> rt, expiresAt |-> exp]
NoTokens == [present |-> FALSE, accessToken |-> "", refreshToken |-> "", expiresAt |-> 0]

NoRef == [id |-> 0, val |-> NoTokens, key |-> ""]
IsNull(ref) == ref.id = 0 /\ ~ref.val.present

\* The keys 'stellantis_tokens_<brand>' of the brand and of another brand,
\* and 'stellantis_tokens'.
SettingKeys == {"brand", "other", "legacy"}

\* checkAndRefreshTokens (interval and constructor), StellantisClient's
\* getAccessToken, the app's getAccessToken(brand), and the app's
\* getAccessToken for the other brand.
ThreadIds == {"check", "get", "appget", "other"}
\* The brand an operation works for, named by its settings key.
BrandOf(th) == IF th = "other" THEN "other" ELSE "brand"
IdleThread == [pc |-> "idle", tokens |-> NoRef, target |-> NoRef]

\* No engine snapshot stored.
NoSnapshot == <<>>
\* validateOTP is not running.
NoFlow == [pc |-> "none", result |-> ""]

\* What the settings store holds when the model starts: a record under the
\* brand's key that expires in one second, at, just after or long after the
\* five-minute mark, or one without a refresh token, or none; and a record
\* under the old key or none.
InitialExpiries == {StartTime + 1000, StartTime + FiveMinutes, StartTime + FiveMinutes + 1,
                    StartTime + 3600000}
Stores ==
    [brand : {NoTokens, TokenData("at0", "", StartTime + 1000)}
                \cup {TokenData("at0", "rt0", e) : e \in InitialExpiries},
     legacy : {NoTokens, TokenData("atL", "rtL", StartTime + 1000)},
     copies : BOOLEAN,
     otpState : {NoSnapshot}]
EmptyStore == [brand |-> NoTokens, legacy |-> NoTokens, copies |-> FALSE,
               otpState |-> NoSnapshot]

\* new MqttTokenManager(otpState, clientId): no token, no refresh token, no
\* expiry (null is "" and 0), and no getAccessToken call under way.
ManagerCalls == 1..MaxManagerCalls
NewManager ==
    [accessToken |-> "", refreshToken |-> "", expiresAt |-> 0, now |-> StartTime,
     pc |-> [c \in ManagerCalls |-> "new"]]

\* No function applied on its own, and none applied yet.
NoArgs == <<>>
NoResult == <<>>

\* The state after construction: a StellantisVehicleControl, an Otp engine
\* out of `engines`, arguments out of `args` for the function applied on its
\* own, and a settings store out of `stores` with no StellantisClient yet.
InitWith(engines, args, stores) ==
    /\ client = "null"
    /\ connected = FALSE
    /\ connPromise = "none"
    /\ handshake = FALSE
    /\ errorFired = FALSE
    /\ subPending = {}
    /\ subLog = [t \in Topics |-> "none"]
    /\ connectCalls = 0
    /\ disconnectCalls = 0
    /\ responseHandlers = [c \in CorrIds |-> 0]
    /\ timer = [k \in Calls |-> 0]
    /\ pubCb = [k \in Calls |-> FALSE]
    /\ corr = [k \in Calls |-> 0]
    /\ promise = [k \in Calls |-> "none"]
    /\ published = [k \in Calls |-> 0]
    /\ pubQos = [k \in Calls |-> 0]
    /\ invoked = [k \in Calls |-> 0]
    /\ nCalls = 0
    /\ nextId = 0
    /\ otp \in engines
    /\ pc = "idle"
    /\ call = Idle
    /\ trace = <<>>
    /\ synchroCalls = 0
    /\ arg \in args
    /\ res = NoResult
    /\ now = StartTime
    /\ \E st \in stores :
          /\ objects = <<st.brand, st.legacy, NoTokens>>
          /\ settings = [k \in SettingKeys |->
                            IF k = "brand" THEN (IF st.brand.present THEN 1 ELSE 0)
                            ELSE IF k = "legacy" THEN (IF st.legacy.present THEN 2 ELSE 0)
                            ELSE 0]
          /\ getCopies = st.copies
          /\ durable = st.otpState
    /\ tokens = NoRef
    /\ accessToken = ""
    /\ constructed = FALSE
    /\ threads = [th \in ThreadIds |-> IdleThread]
    /\ tlog = <<>>
    /\ attempts = 0
    /\ tokenCalls = 0
    /\ manager = NewManager
    /\ mlog = [c \in ManagerCalls |-> <<>>]
    /\ flow = NoFlow

\* activationStart() called; suspended at its request.
CallActivationStart ==
    /\ CanCall
    /\ trace' = Append(trace, Req(SetupRequest(otp)))
    /\ pc' = "setup"
    /\ call' = [op |-> "activationStart", round |-> 0]
    /\ UNCHANGED <<otp, synchroCalls>>
    /\ UNCHANGED notOtp

\* activationFinalize() called; throws at once, or suspended at its request.
CallActivationFinalize ==
    /\ CanCall
    /\ IF FinalizeThrowsEarly(otp)
       THEN /\ trace' = Append(trace, Ret("activationFinalize", "Error", Empty,
                                           Text("Cipher or codepin not initialized")))
            /\ UNCHANGED <<pc, call>>
       ELSE /\ trace' = Append(trace, Req(FinalizeRequest(otp)))
            /\ pc' = "finalize"
            /\ call' = [op |-> "activationFinalize", round |-> 0]
    /\ UNCHANGED <<otp, synchroCalls>>
    /\ UNCHANGED notOtp

\* getOtpCode() called: sets the mode, runs activationStart to its request.
CallGetOtpCode ==
    /\ CanCall
    /\ otp' = [otp EXCEPT !.mode = "otp"]
    /\ trace' = Append(trace, Req(SetupRequest(otp')))
    /\ pc' = "setup"
    /\ call' = [op |-> "getOtpCode", round |-> 1]
    /\ UNCHANGED synchroCalls
    /\ UNCHANGED notOtp

\* getOtpCode's catch: whatever was thrown is thrown again as a
\* ConfigException whose message begins 'Cannot get otp code: '.
CannotGetOtpCode(msg) ==
    Ret("getOtpCode", "ConfigException", Empty, Prefixed("Cannot get otp code: ", msg))

\* Mutant of OtpCodeReturn: the second round is only tested for NOK, so a
\* second forced re-challenge passes for success.
OtpCodeReturnUnlessNok(e, out, round) ==
    IF out = "OK" \/ (round = 2 /\ out = "OTP_TWICE")
    THEN Ret("getOtpCode", "code", getOtpCodeValue(e), NoMessage)
    ELSE IF round = 1 /\ out = "NOK" THEN Ret("getOtpCode", "null", Empty, NoMessage)
    ELSE CannotGetOtpCode(Text("Second OTP finalization failed"))

\* getOtpCode after an activationFinalize that did not throw: what it
\* returns or throws on result `out` in the given round.
OtpCodeReturn(e, out, round) ==
    IF out = "OK" THEN Ret("getOtpCode", "code", getOtpCodeValue(e), NoMessage)
    ELSE IF round = 1 /\ out = "NOK" THEN Ret("getOtpCode", "null", Empty, NoMessage)
    ELSE CannotGetOtpCode(Text("Second OTP finalization failed"))

\* activationFinalize has finished with r.out on engine r.e, after the
\* events in t: the public method in progress returns, throws, or goes on to
\* its next request.
FinishFinalize(r, t) ==
    IF call.op = "activationFinalize"
    THEN /\ otp' = r.e
         /\ trace' = Append(t, Ret("activationFinalize", r.out, Empty, r.msg))
         /\ pc' = "idle"
         /\ call' = Idle
    ELSE IF r.out = "OTP_TWICE" /\ call.round = 1
    THEN /\ CanSend
         /\ otp' = [r.e EXCEPT !.mode = "otp"]
         /\ trace' = Append(t, Req(SetupRequest(otp')))
         /\ pc' = "setup"
         /\ call' = [op |-> "getOtpCode", round |-> 2]
    ELSE /\ otp' = r.e
         /\ pc' = "idle"
         /\ call' = Idle
         /\ trace' = Append(t,
               IF r.out \in {"Error", "ConfigException"} THEN CannotGetOtpCode(r.msg)
               ELSE OtpCodeReturn(r.e, r.out, call.round))

\* The Setup reply arrives.
ReplySetup(xml) ==
    /\ pc = "setup"
    /\ LET r == SetupReceive(otp, xml)
           t == Append(trace, Rep(xml))
       IN  IF call.op = "activationStart"
           THEN /\ otp' = r.e
                /\ trace' = Append(t, Ret("activationStart", r.out, Empty, r.msg))
                /\ pc' = "idle"
                /\ call' = Idle
           ELSE IF r.out = "true"
           THEN /\ CanSend
                /\ otp' = r.e
                /\ trace' = Append(t, Req(FinalizeRequest(r.e)))
                /\ pc' = "finalize"
                /\ UNCHANGED call
           ELSE /\ otp' = r.e
                /\ trace' = Append(t, CannotGetOtpCode(r.msg))
                /\ pc' = "idle"
                /\ call' = Idle
    /\ UNCHANGED synchroCalls
    /\ UNCHANGED notOtp

\* The reply to the first Finalize request arrives.
ReplyFinalize(xml, rnd) ==
    /\ pc = "finalize"
    /\ LET r == FinalizeReceive(otp, xml, rnd)
           t == Append(trace, Rep(xml))
       IN  IF r.out = "ms"
           THEN /\ CanSend
                /\ otp' = r.e
                /\ trace' = Append(t, Req(MsRequest(r.e, xml, rnd)))
                /\ pc' = "ms"
                /\ UNCHANGED call
           ELSE FinishFinalize(r, t)
    /\ UNCHANGED synchroCalls
    /\ UNCHANGED notOtp

\* The reply to the ms-mode Finalize request arrives.
ReplyMs(xml2) ==
    /\ pc = "ms"
    /\ LET r == MsReceive(otp, xml2)
       IN  FinishFinalize(r, Append(trace, Rep(xml2)))
    /\ UNCHANGED synchroCalls
    /\ UNCHANGED notOtp

OtpNext ==
    \/ CallActivationStart
    \/ CallActivationFinalize
    \/ CallGetOtpCode
    \/ \E xml \in SetupReplies : ReplySetup(xml)
    \/ \E xml \in FinalizeReplies, rnd \in RandomValues : ReplyFinalize(xml, rnd)
    \/ \E xml2 \in FinalizeReplies : ReplyMs(xml2)

(***************************************************************************)
(* IWData.synchro on its own: any reply, any Kma argument.                 *)
(***************************************************************************)
KmaArguments ==
    {generateKma(ActivatingOtp, pin) : pin \in {"5678", "0000", "4321"}}

SynchroReplies ==
    {[Reply("OK") EXCEPT !.tsync = ts, !.id = id] :
        ts \in {Absent, Zero, "", "ts1", "ts2"}, id \in {Absent, "", "id1", "id2"}}

\* data.synchro(xml, kma) called directly.
SynchroCall(xml, kma) ==
    /\ synchroCalls < MaxSynchro
    /\ synchroCalls' = synchroCalls + 1
    /\ otp' = [otp EXCEPT !.data = IWDataSynchro(otp.data, xml, kma)]
    /\ trace' = Append(trace, [ev |-> "synchro", kma |-> kma])
    /\ UNCHANGED <<pc, call>>
    /\ UNCHANGED notOtp

SynchroNext == \E xml \in SynchroReplies, kma \in KmaArguments : SynchroCall(xml, kma)

(***************************************************************************)
(* The module's functions applied on their own: arguments drawn from       *)
(* bounded sets, one application.                                          *)
(***************************************************************************)
Applied == Len(res) = 1
Min(a, b) == IF a < b THEN a ELSE b

\* ---- _getOtpCode()
\* _getOtpCode() as a method call: the code it returns and the engine it
\* leaves behind.
GetOtpCodeMethod(e) == [e |-> e, code |-> getOtpCodeValue(e)]

\* Engines that differ in K1, defi and the secondary value, and in the rest
\* of their state.
OtherState(e, v) ==
    CASE v = 1 -> [e EXCEPT !.data.iwK0 = generateKma(e, "0000"), !.challenge = "chal1",
                            !.codepin = "0000", !.smsCode = "4321"]
      [] v = 2 -> [e EXCEPT !.mode = "otp", !.action = "synchro", !.otp_count = 1]
      [] v = 3 -> [e EXCEPT !.device_id = "dev2", !.iwalea = "salt2", !.macid = "macid2",
                            !.data.iwid = "id1", !.data.iwTsync = "ts1"]
      [] OTHER -> e

CodeEngines ==
    {OtherState([ActivatingOtp EXCEPT !.data.iwK0 = generateKma(ActivatingOtp, "5678"),
                                      !.data.iwK1 = k1, !.defi = d, !.data.iwsecval = sv], v) :
        k1 \in {generateKma(ActivatingOtp, "5678"), generateKma(ActivatingOtp, "4321")},
        d \in {0, 5},
        sv \in {Empty, <<"aes-128-ecb", generateKma(ActivatingOtp, "5678"), "rnd1">>},
        v \in 0..3}

ApplyGetOtpCode ==
    /\ ~Applied
    /\ res' = << <<GetOtpCodeMethod(arg[1]), GetOtpCodeMethod(arg[2])>> >>
    /\ UNCHANGED arg
    /\ UNCHANGED notPure

\* ---- toJSON() and Otp.fromJSON(state)
\* The fields toJSON() copies: every field of the engine but the cipher and
\* the XML parser.
OtpStateFields ==
    {"Kiw", "pinmode", "Kfact", "iwalea", "device_id", "codepin", "challenge", "action",
     "version", "macid", "smsCode", "mode", "defi", "otp_count", "data"}

\* toJSON()
toJSON(e) == [f \in OtpStateFields |-> e[f]]

\* new Otp(inweboAccessId, deviceId) with what generateRandomHex gives: the
\* salt, and the device id if none is passed.
ConstructOtp(macid, deviceId, random) ==
    NewOtp(macid, IF Truthy(deviceId) THEN deviceId ELSE random.device_id, random.iwalea,
           Null, Null)

\* Mutant of fromJSON: the salt the constructor drew is kept.
fromJSONKeepsSalt(state, random) ==
    LET otp0 == ConstructOtp(state.macid, state.device_id, random)
        assigned == [f \in DOMAIN otp0 |->
                        IF f \in DOMAIN state /\ f # "iwalea" THEN state[f] ELSE otp0[f]]
    IN  IF Truthy(assigned.Kiw) THEN [assigned EXCEPT !.cipher = assigned.Kiw] ELSE assigned

\* Otp.fromJSON(state): a new engine, every field of state assigned over it,
\* and the cipher rebuilt from Kiw if there is one.
fromJSON(state, random) ==
    LET otp0 == ConstructOtp(state.macid, state.device_id, random)
        assigned == [f \in DOMAIN otp0 |-> IF f \in DOMAIN state THEN state[f] ELSE otp0[f]]
    IN  IF Truthy(assigned.Kiw) THEN [assigned EXCEPT !.cipher = assigned.Kiw] ELSE assigned

\* Engines before and after activation, and what generateRandomHex can give.
Activated(e) ==
    [e EXCEPT !.Kfact = "kfact1", !.pinmode = "1", !.Kiw = "kiw1", !.cipher = "kiw1"]
SnapshotEngines ==
    {BareOtp, ActivatingOtp} \cup CodeEngines \cup {Activated(e) : e \in CodeEngines}
RandomHex == {[iwalea |-> "saltA", device_id |-> "devA"], [iwalea |-> "saltB", device_id |-> "devB"]}
SnapshotInputs == SnapshotEngines \X RandomHex

ApplySnapshot ==
    /\ ~Applied
    /\ res' = <<fromJSON(toJSON(arg[1]), arg[2])>>
    /\ UNCHANGED arg
    /\ UNCHANGED notPure

\* ---- The diagnostic output of the engine and of validateOTP
\* A line written with console.debug, console.log or console.error: its
\* fixed text and the values put into it.
Line(text, values) == [text |-> text, values |-> values]

\* pinCode.replace(/./g, '*'): one star for each of the PIN's four digits.
Mask(pinCode) == IF pinCode = "" THEN "" ELSE "****"

\* The line getR() writes: the three strings before they are hashed.
getRLine(e) ==
    LET iw == IF e.action = "upgrade" THEN e.data.iwK1 ELSE e.data.iwK0
    IN  Line("R0: R1: R2:",
             << <<e.challenge, ";", iw, ";", getSerial(e)>>,
                <<e.challenge, ";", iw, ";", e.data.iwK1>>,
                <<e.challenge, ";", iw, ";",
                  IF e.action = "synchro" THEN Str(e.codepin) ELSE "">> >>)

\* The lines IWData.synchro(xml, kma) writes: each key it sets, of which the
\* first 32 characters are all there are.
SynchroLines(d, kma) ==
    (IF ~TruthyT(d.iwK0) THEN <<Line("iwK0 initialized:", <<kma>>)>> ELSE <<>>)
    \o (IF ~TruthyT(d.iwK1) THEN <<Line("iwK1 initialized:", <<kma>>)>> ELSE <<>>)

\* The lines activationStart writes from the Setup reply on.
SetupLines(e, xml) ==
    IF xml = Failed \/ xml.err # "OK" \/ e.mode # "activate" THEN <<>>
    ELSE IF ~CanDecode(xml.Kiw, xml.Kfact) THEN <<>>
    ELSE <<Line("Decoded OAEP:", <<decodeOaep(xml.Kiw, xml.Kfact)>>),
           Line("Initialized after setup - iwK0:", <<SetupReceive(e, xml).e.data.iwK0>>)>>

\* The lines activationFinalize writes up to its return, its throw or its
\* ms-mode request: getR's at its start and, building the ms-mode request,
\* getR's again.
FinalizeLines(e, xml, rnd) ==
    <<getRLine(e)>> \o
    (IF FinalizeThrowsEarly(e) \/ xml = Failed THEN <<>>
     ELSE IF xml.err # "OK" THEN <<Line("Error during activation:", <<xml>>)>>
     ELSE SynchroLines(e.data, generateKma(e, e.codepin)) \o
          (IF e.mode = "otp"
           THEN IF Truthy(xml.defi) /\ Truthy(xml.J)
                THEN <<Line("Need another otp request", <<>>)>>
                ELSE <<>>
           ELSE IF NoneRequested(xml.ms_n) THEN <<Line("no ms_n request needed", <<>>)>>
           ELSE IF MoreThanOne(xml.ms_n) \/ ~CanDecode(xml.ms_key, e.Kfact) THEN <<>>
           ELSE <<Line("Decoded OAEP:", <<decodeOaep(xml.ms_key, e.Kfact)>>),
                  getRLine(FinalizeReceive(e, xml, rnd).e)>>))

\* The lines activationFinalize writes from the ms-mode reply on.
MsLines(e, xml2) ==
    IF xml2 = Failed THEN <<>> ELSE SynchroLines(e.data, generateKma(e, e.codepin))

\* One round of getOtpCode, Setup then Finalize in otp mode: the engine after
\* it, what Finalize returned ("Error" for any throw) and the lines written.
OtpRound(e, a) ==
    LET e1 == [e EXCEPT !.mode = "otp"]
        s == SetupReceive(e1, a.otpSetup)
        f == FinalizeReceive(s.e, a.otpFinalize, a.rnd)
    IN  IF s.out # "true"
        THEN [e |-> s.e, out |-> "Error", lines |-> SetupLines(e1, a.otpSetup)]
        ELSE [e |-> f.e,
              out |-> IF f.out \in {"OK", "OTP_TWICE", "NOK"} THEN f.out ELSE "Error",
              lines |-> SetupLines(e1, a.otpSetup)
                        \o FinalizeLines(s.e, a.otpFinalize, a.rnd)]

\* getOtpCode(): the code it returns, if any, and the lines it writes.
GetOtpCodeLines(e, a) ==
    LET first == OtpRound(e, a)
        second == OtpRound(first.e, a)
        code(e1) == Line("otp code:", <<getOtpCodeValue(e1)>>)
    IN  IF first.out = "OK"
        THEN [code |-> <<getOtpCodeValue(first.e)>>,
              lines |-> first.lines \o <<code(first.e)>>]
        ELSE IF first.out # "OTP_TWICE" THEN [code |-> <<>>, lines |-> first.lines]
        ELSE IF second.out = "OK"
        THEN [code |-> <<getOtpCodeValue(second.e)>>,
              lines |-> first.lines \o second.lines \o <<code(second.e)>>]
        ELSE [code |-> <<>>, lines |-> first.lines \o second.lines]

\* Every line a call of validateOTP with no stored state writes, up to the
\* password grant: its own and those of the engine methods it calls, for the
\* replies and random values in `a`.
ValidateLines(smsCode, pinCode, a) ==
    LET e0 == [ConstructOtp("macid1", "dev1", a.random) EXCEPT
                  !.smsCode = smsCode, !.codepin = pinCode]
        s == SetupReceive(e0, a.setup)
        f == FinalizeReceive(s.e, a.finalize, a.rnd)
        last == IF f.out = "ms" THEN MsReceive(f.e, a.ms) ELSE f
        start == <<Line("[STAP 2] Geen OTP state in sessie, nieuwe sessie aanmaken...", <<>>),
                   Line("[STAP 2] Aanmaken met SMS: , PIN:", <<smsCode, Mask(pinCode)>>)>>
                 \o SetupLines(e0, a.setup)
        finalize == FinalizeLines(s.e, a.finalize, a.rnd)
                    \o (IF f.out = "ms" THEN MsLines(f.e, a.ms) ELSE <<>>)
        code == GetOtpCodeLines(last.e, a)
    IN  IF s.out # "true" THEN start
        ELSE IF FinalizeThrowsEarly(s.e) \/ last.out \notin {"OK", "NOK"}
        THEN start \o finalize
        ELSE IF last.out = "NOK"
        THEN start \o finalize \o <<Line("finalizeResult", <<last.out>>)>>
        ELSE start \o finalize
             \o <<Line("finalizeResult", <<last.out>>),
                  Line("[STAP 2] OTP sessie succesvol aangemaakt", <<>>),
                  Line("[STAP 4] OTP code genereren...", <<>>),
                  Line("[STAP 4] Rate limit: Max 6 keer per 24 uur", <<>>)>>
             \o code.lines
             \o (IF code.code = <<>> THEN <<>>
                 ELSE <<Line("[STAP 4] OTP code gegenereerd:", code.code)>>)

\* Two PINs, and everything else the two runs share: the SMS code, the
\* random values and the server's replies.
Pins == {"5678", "0000"}
DiagnosticInputs ==
    [pins : {pq \in Pins \X Pins : pq[1] # pq[2]}, sms : {"1234"},
     random : RandomHex, rnd : RandomValues,
     setup : SetupReplies, finalize : FinalizeReplies,
     ms : {Reply("OK"), Failed},
     otpSetup : {[Reply("OK") EXCEPT !.challenge = "chal1"], Reply("NOK")},
     otpFinalize : {[Reply("OK") EXCEPT !.defi = "5"],
                    [Reply("OK") EXCEPT !.defi = "7", !.J = "1"], Reply("NOK")}]

ApplyValidateLines ==
    /\ ~Applied
    /\ res' = << <<ValidateLines(arg.sms, arg.pins[1], arg),
                   ValidateLines(arg.sms, arg.pins[2], arg)>> >>
    /\ UNCHANGED arg
    /\ UNCHANGED notPure

\* ---- getR()
\* Engines in each action, with a challenge.
Actions == {"", "upgrade", "synchro"}
GetRInputs ==
    {[e EXCEPT !.action = a, !.challenge = c] :
        e \in CodeEngines, a \in Actions, c \in {"chal1", "chal2"}}

ApplyGetR ==
    /\ ~Applied
    /\ res' = <<getR(arg)>>
    /\ UNCHANGED arg
    /\ UNCHANGED notPure

\* ---- An engine restored from a snapshot, at work
\* What `data` of a snapshot is when fromJSON receives it.  toJSON() copies
\* the reference to the engine's IWData object, so a snapshot handed over
\* as it is, or by a store that gives back what it was given, carries that
\* very object ("shared"); a store that serialises what it is given hands
\* back a plain object with the same fields and no methods ("plain").
SnapshotData == {"shared", "plain"}

\* One round of getOtpCode, Setup then Finalize in otp mode, on engine e
\* whose data is an IWData object or a plain one: the engine after it, the
\* requests sent and what Finalize returned ("Error" for any throw).  On a
\* plain object this.data.synchro is not a function.
RoundRun(e, a, plain) ==
    LET e1 == [e EXCEPT !.mode = "otp"]
        s == SetupReceive(e1, a.otpSetup)
        f == FinalizeReceive(s.e, a.otpFinalize, a.rnd)
    IN  IF s.out # "true"
        THEN [e |-> s.e, out |-> "Error", requests |-> <<SetupRequest(e1)>>]
        ELSE IF plain /\ a.otpFinalize # Failed /\ a.otpFinalize.err = "OK"
        THEN [e |-> s.e, out |-> "Error",
              requests |-> <<SetupRequest(e1), FinalizeRequest(s.e)>>]
        ELSE [e |-> f.e,
              out |-> IF f.out \in {"OK", "OTP_TWICE", "NOK"} THEN f.out ELSE "Error",
              requests |-> <<SetupRequest(e1), FinalizeRequest(s.e)>>]

\* getOtpCode() on engine e: the engine after it, the requests sent, and
\* the code returned, if any.
GetOtpCodeRun(e, a, plain) ==
    LET first == RoundRun(e, a, plain)
        second == RoundRun(first.e, a, plain)
    IN  IF first.out = "OK"
        THEN [e |-> first.e, requests |-> first.requests,
              code |-> <<getOtpCodeValue(first.e)>>]
        ELSE IF first.out # "OTP_TWICE"
        THEN [e |-> first.e, requests |-> first.requests, code |-> <<>>]
        ELSE [e |-> second.e, requests |-> first.requests \o second.requests,
              code |-> IF second.out = "OK" THEN <<getOtpCodeValue(second.e)>> ELSE <<>>]

\* Engine e is snapshotted and restored and the restored engine draws a
\* code: what the restored engine did, what e itself would have done, and e
\* once the restored engine is done (a shared IWData object is the same
\* object in both).
RestoreAndRun(e, a) ==
    LET restored == GetOtpCodeRun(fromJSON(toJSON(e), a.random), a, a.data = "plain")
    IN  [restored |-> restored,
         original |-> GetOtpCodeRun(e, a, FALSE),
         originalAfter |-> IF a.data = "shared" THEN [e EXCEPT !.data = restored.e.data]
                           ELSE e]

\* Activated engines, and the replies to the two requests of getOtpCode.
RestoreInputs ==
    [e : {Activated(e) : e \in CodeEngines}, random : RandomHex, rnd : RandomValues,
     data : SnapshotData,
     otpSetup : {[Reply("OK") EXCEPT !.challenge = "chal1"], Reply("NOK")},
     otpFinalize : {[Reply("OK") EXCEPT !.tsync = "ts2", !.defi = "5"],
                    [Reply("OK") EXCEPT !.defi = "5"],
                    [Reply("OK") EXCEPT !.id = "id2", !.defi = "7", !.J = "1"],
                    Reply("NOK"), Failed}]

ApplyRestoreAndRun ==
    /\ ~Applied
    /\ res' = <<RestoreAndRun(arg.e, arg)>>
    /\ UNCHANGED arg
    /\ UNCHANGED notPure

\* ---- numberToBase36(n)
BASE36_CHARS ==
    <<"a", "b", "c", "d", "e", "f", "g", "h", "i", "j", "k", "l", "m",
      "n", "o", "p", "q", "r", "s", "t", "u", "v", "w", "x", "y", "z",
      "0", "1", "2", "3", "4", "5", "6", "7", "8", "9">>

\* The while loop: one character appended per base-36 digit, lowest first.
RECURSIVE Base36Loop(_, _)
Base36Loop(digits, num) ==
    IF num > 0
    THEN Base36Loop(Append(digits, BASE36_CHARS[(num % 36) + 1]), num \div 36)
    ELSE digits

\* A string is the sequence of its characters.
numberToBase36(n) == IF n = 0 THEN <<"0">> ELSE Base36Loop(<<>>, n)

Base36Inputs == (0..MaxNumber) \cup {36 * 36 * 36 * 36 * 36, 2147483647}

ApplyNumberToBase36 ==
    /\ ~Applied
    /\ res' = <<numberToBase36(arg)>>
    /\ UNCHANGED arg
    /\ UNCHANGED notPure

\* ---- mgf1(seed, length, hashAlgo)
\* hLen
HashLength(hashAlgo) == IF hashAlgo = "sha256" THEN 32 ELSE 20

\* Mutant of Ceil: the quotient is rounded down.
Floor(a, b) == a \div b
\* Math.ceil(a / b) for a >= 0 and b > 0
Ceil(a, b) == (a + b - 1) \div b

\* hash.update(seed); hash.update(C); hash.digest(): hLen bytes, each a
\* function of the algorithm, the seed and the counter.
CounterDigest(hashAlgo, seed, i) ==
    [j \in 1..HashLength(hashAlgo) |-> <<hashAlgo, seed, i, j>>]

\* The for loop and Buffer.concat(T): the digests of counters i..counter-1.
RECURSIVE Mgf1Blocks(_, _, _, _)
Mgf1Blocks(hashAlgo, seed, i, counter) ==
    IF i < counter
    THEN CounterDigest(hashAlgo, seed, i) \o Mgf1Blocks(hashAlgo, seed, i + 1, counter)
    ELSE <<>>

\* buf.slice(0, end)
SliceFromStart(buf, end) == SubSeq(buf, 1, Min(end, Len(buf)))

mgf1(seed, length, hashAlgo) ==
    LET counter == Ceil(length, HashLength(hashAlgo))
    IN  SliceFromStart(Mgf1Blocks(hashAlgo, seed, 0, counter), length)

Mgf1Inputs ==
    [seed : {<<>>, <<7>>, <<1, 2, 3>>}, length : 0..MaxLength, hashAlgo : {"sha256", "sha1"}]

ApplyMgf1 ==
    /\ ~Applied
    /\ res' = <<mgf1(arg.seed, arg.length, arg.hashAlgo)>>
    /\ UNCHANGED arg
    /\ UNCHANGED notPure

\* ---- OAEPCipher.encrypt and oaepDecrypt
\* RSA is computed as the code computes it, on moduli small enough to
\* enumerate.  The OAEP padding (seed, masks, label hash, separator) is a
\* bijection between (random seed, message) and the padded block; it is one
\* here too, on small integers: block = 1 + seed * #messages + message.
RECURSIVE ModPow(_, _, _)
ModPow(b, e, n) ==
    IF e = 0 THEN 1 % n
    ELSE IF e % 2 = 1 THEN (b * ModPow(b, e - 1, n)) % n
    ELSE LET h == ModPow(b, e \div 2, n) IN (h * h) % n

OaepMessages == 0..MaxMessage
OaepSeeds == 0..2
NoSeparator == -1

\* forge's RSA-OAEP encoding of a message under a random seed.
OaepEncode(m, seed) == 1 + seed * (MaxMessage + 1) + m
\* The unmasking and the search for the separator: the message of the block,
\* or the throw 'no separator found' for a block that is no encoding.
OaepDecode(em) ==
    IF em \in 1..(Cardinality(OaepSeeds) * (MaxMessage + 1)) THEN (em - 1) % (MaxMessage + 1) ELSE NoSeparator

\* OAEPCipher.encrypt(plaintext) with the cipher's modulus and exponent.
OAEPCipherEncrypt(m, seed, modulus, exponent) == ModPow(OaepEncode(m, seed), exponent, modulus)

\* Mutant of oaepDecrypt: the exponent handed in is ignored for the public one.
oaepDecryptPublicOnly(ciphertext, modulus, exponent) ==
    OaepDecode(ModPow(ciphertext, EXPONENT, modulus))

\* oaepDecrypt(ciphertext, modulus, exponent)
oaepDecrypt(ciphertext, modulus, exponent) ==
    OaepDecode(ModPow(ciphertext, exponent, modulus))

\* decodeOaep on one block: oaepDecrypt with the public exponent.
decodeOaepBlock(ciphertext, modulus) == oaepDecrypt(ciphertext, modulus, EXPONENT)

\* RSA key pairs for the public exponent: the primes, the modulus, and the
\* private exponent the server holds.
Primes == {<<3, 11>>, <<5, 7>>, <<5, 11>>, <<7, 11>>, <<13, 17>>}
Lambda(pq) ==
    CHOOSE l \in 1..((pq[1] - 1) * (pq[2] - 1)) :
        /\ l % (pq[1] - 1) = 0 /\ l % (pq[2] - 1) = 0
        /\ \A k \in 1..(l - 1) : ~(k % (pq[1] - 1) = 0 /\ k % (pq[2] - 1) = 0)
PrivateExponent(pq) == CHOOSE d \in 1..Lambda(pq) : (d * EXPONENT) % Lambda(pq) = 1

OaepInputs == [pq : Primes, m : OaepMessages, seed : OaepSeeds]

\* A message encrypted by the client's cipher, then decrypted with the public
\* and with the private exponent; and a block the server made with its
\* private exponent, decoded by decodeOaep.
ApplyOaep ==
    /\ ~Applied
    /\ LET n == arg.pq[1] * arg.pq[2]
           d == PrivateExponent(arg.pq)
           c == OAEPCipherEncrypt(arg.m, arg.seed, n, EXPONENT)
       IN  res' = <<[c |-> c,
                     withPublic |-> decodeOaepBlock(c, n),
                     withPrivate |-> oaepDecrypt(c, n, d),
                     fromServer |->
                         decodeOaepBlock(ModPow(OaepEncode(arg.m, arg.seed), d, n), n)]>>
    /\ UNCHANGED arg
    /\ UNCHANGED notPure

\* ---- The number _getOtpCode() cuts from the digest
\* A 32-bit word, as readUInt32BE gives it, is its two 16-bit halves
\* <<high, low>>.  An integer that needs more than 32 bits is its limbs
\* <<l2, l1, l0>> to the radix 2^16, l2 holding the sign: JavaScript
\* numbers hold integers exactly up to 2^53.
Radix == 2^16
Halves == {0, 1, 1023, 1024, 4095, 4096, 32767, 32768, 65535}
Words == Halves \X Halves

\* x & mask for a mask whose halves are of the form 2^k - 1: the bits of x
\* the mask lets through, as a 32-bit pattern.
BitAnd(x, mask) == <<x[1] % (mask[1] + 1), x[2] % (mask[2] + 1)>>
\* The result of a bitwise operator is a signed 32-bit integer.
Int32(bits) ==
    IF bits[1] >= Radix \div 2 THEN (bits[1] - Radix) * Radix + bits[2]
    ELSE bits[1] * Radix + bits[2]

\* Mutant of MulAdd: the result is cut to its low 32 bits.
MulAddWraps(a, m, b) ==
    LET t0 == (a % Radix) * m + b
        t1 == (a \div Radix) * m + (t0 \div Radix)
    IN  <<0, t1 % Radix, t0 % Radix>>

\* a * m + b on JavaScript numbers, for 32-bit integers a and b and a small
\* m: exact, no bits are lost.
MulAdd(a, m, b) ==
    LET t0 == (a % Radix) * m + b
        t1 == (a \div Radix) * m + (t0 \div Radix)
    IN  <<t1 \div Radix, t1 % Radix, t0 % Radix>>

\* ((first4Bytes & 0xfffffff) * 1024) + (next4Bytes & 1023)
OtpNumber(first4Bytes, next4Bytes) ==
    MulAdd(Int32(BitAnd(first4Bytes, <<4095, 65535>>)), 1024,
           Int32(BitAnd(next4Bytes, <<0, 1023>>)))

ApplyOtpNumber ==
    /\ ~Applied
    /\ res' = <<OtpNumber(arg[1], arg[2])>>
    /\ UNCHANGED arg
    /\ UNCHANGED notPure

\* ---- oaepDecrypt: the separator in the unmasked data block
\* hLen, in bytes (SHA-256).
hLen == 32
\* Bytes: 0x00, the separator 0x01, and any other value.
Bytes == 0..2

\* buf.indexOf(value), counting from 0; -1 if the value is not there.
RECURSIVE IndexFrom(_, _, _)
IndexFrom(buf, value, i) ==
    IF i > Len(buf) THEN -1
    ELSE IF buf[i] = value THEN i - 1
    ELSE IndexFrom(buf, value, i + 1)
indexOf(buf, value) == IndexFrom(buf, value, 1)

\* buf.slice(start)
SliceFrom(buf, start) == SubSeq(buf, start + 1, Len(buf))

\* Mutant of StripSeparator: the separator is looked for from the start of
\* the data block, label hash included.
StripSeparatorFromStart(db) ==
    LET onePos == indexOf(db, 1)
    IN  IF onePos < 0 THEN [thrown |-> TRUE, payload |-> <<>>]
        ELSE [thrown |-> FALSE, payload |-> SliceFrom(db, onePos + 1)]

\* oaepDecrypt from the unmasked data block db on: the bytes after the
\* first 0x01 that follows the label hash, or the throw 'Incorrect
\* decryption - no separator found'.
StripSeparator(db) ==
    LET dbData == SliceFrom(db, hLen)
        onePos == indexOf(dbData, 1)
    IN  IF onePos < 0 THEN [thrown |-> TRUE, payload |-> <<>>]
        ELSE [thrown |-> FALSE, payload |-> SliceFrom(db, hLen + onePos + 1)]

\* Data blocks: a label hash of hLen bytes, with or without bytes 0x01 in
\* it, then up to MaxData bytes.
MaxData == 4
LabelHashes == {[i \in 1..hLen |-> b] : b \in {0, 1}}
DataBlocks ==
    UNION {{lHash \o data : lHash \in LabelHashes, data \in [1..n -> Bytes]} : n \in 0..MaxData}

ApplyStripSeparator ==
    /\ ~Applied
    /\ res' = <<StripSeparator(arg)>>
    /\ UNCHANGED arg
    /\ UNCHANGED notPure

\* ---- decodeOaep(enc, key) on a ciphertext of any length
\* blockSize, in bytes.
blockSize == 128

\* A Buffer of ciphertext: pieces of at most blockSize bytes, every one but
\* the last of blockSize bytes; a piece is its length and, as a number, what
\* it holds.  The modulus comes with its length in bytes, which the small
\* numbers that stand for the key do not have.
BufferLength(buf) == IF buf = <<>> THEN 0 ELSE (Len(buf) - 1) * blockSize + buf[Len(buf)].len
\* encBuffer.slice(mini, maxi) for mini a multiple of blockSize.
Slice(buf, mini, maxi) == [len |-> maxi - mini, val |-> buf[(mini \div blockSize) + 1].val]

IncorrectLength == -2

\* oaepDecrypt(ciphertext, modulus, exponent) on a Buffer: the length of the
\* ciphertext is compared with that of the modulus first.
oaepDecryptBuffer(ciphertext, key, exponent) ==
    IF ciphertext.len # key.k THEN IncorrectLength
    ELSE oaepDecrypt(ciphertext.val, key.n, exponent)

\* The loop of decodeOaep from block x on: the plaintexts so far, and what
\* was thrown, if anything.
RECURSIVE DecodeBlocks(_, _, _, _, _)
DecodeBlocks(encBuffer, key, nbBlock, x, decString) ==
    IF x >= nbBlock THEN [plain |-> decString, thrown |-> <<>>]
    ELSE LET mini == x * blockSize
             maxi == IF x = nbBlock - 1 THEN BufferLength(encBuffer) ELSE (1 + x) * blockSize
             decrypted == oaepDecryptBuffer(Slice(encBuffer, mini, maxi), key, EXPONENT)
         IN  IF decrypted \in {IncorrectLength, NoSeparator}
             THEN [plain |-> decString, thrown |-> <<decrypted>>]
             ELSE DecodeBlocks(encBuffer, key, nbBlock, x + 1, Append(decString, decrypted))

\* decodeOaep(enc, key)
decodeOaepBuffer(encBuffer, key) ==
    DecodeBlocks(encBuffer, key, Ceil(BufferLength(encBuffer), blockSize), 0, <<>>)

\* Ciphertexts of up to MaxBlocks blocks that the server made of messages
\* with its private exponent, the last block whole or cut short, under a
\* modulus of 1024 or of 2048 bits.
MaxBlocks == 3
ServerKey == <<5, 7>>
BlockMessages == 0..2
ServerBlock(m) ==
    ModPow(OaepEncode(m, 1), PrivateExponent(ServerKey), ServerKey[1] * ServerKey[2])
Ciphertexts ==
    UNION {{[x \in 1..n |-> [len |-> IF x = n THEN last ELSE blockSize,
                             val |-> ServerBlock(ms[x])]] :
               ms \in [1..n -> BlockMessages], last \in {blockSize, 100}} : n \in 0..MaxBlocks}
DecodeInputs ==
    [enc : Ciphertexts,
     key : {[n |-> ServerKey[1] * ServerKey[2], k |-> k] : k \in {128, 256}}]

ApplyDecodeOaep ==
    /\ ~Applied
    /\ res' = <<decodeOaepBuffer(arg.enc, arg.key)>>
    /\ UNCHANGED arg
    /\ UNCHANGED notPure

(***************************************************************************)
(* Token lifecycle: StellantisClient (client.ts) and the app's             *)
(* getAccessToken (app.ts) over the Homey settings store.  An operation is *)
(* cut at its awaits: the fetch of the refresh-token grant ("grant"), and  *)
(* the await of a refreshTokens that returned without a fetch ("resume").  *)
(* The operators below take and return the state as a record.              *)
(***************************************************************************)
TokenState ==
    [objects |-> objects, settings |-> settings, tokens |-> tokens,
     accessToken |-> accessToken, threads |-> threads, tlog |-> tlog,
     attempts |-> attempts]

\* The variables take the values of state record s.
Becomes(s) ==
    /\ objects' = s.objects
    /\ settings' = s.settings
    /\ tokens' = s.tokens
    /\ accessToken' = s.accessToken
    /\ threads' = s.threads
    /\ tlog' = s.tlog
    /\ attempts' = s.attempts

Logged(s, e) == [s EXCEPT !.tlog = Append(@, e)]
\* An entry of the log: what happened, in which operation, when, and the
\* expiry, token and settings key it is about.
Event(ev, th, exp, at, key) ==
    [ev |-> ev, th |-> th, now |-> now, expiresAt |-> exp, at |-> at, key |-> key]
\* An operation looks at the expiry of the record it read under key.
CheckEvent(th, exp, key) == Event("check", th, exp, "", key)
\* refreshTokens entered, with the refresh token it finds ("" if none) and
\* the key it finds it under.
RefreshEvent(th, rt, key) == Event("refresh", th, 0, rt, key)
GrantEvent(th, rt) == Event("grant", th, 0, rt, "")
FailedEvent(th) == Event("failed", th, 0, "", "")
ReturnEvent(th, at) == Event("return", th, 0, at, "")
\* refreshTokens has stored the answer of the grant: access token at.
GrantedEvent(th, at) == Event("granted", th, 0, at, "")
\* checkAndRefreshTokens has ended, leaving this.accessToken = at.
DoneEvent(th, at) == Event("done", th, 0, at, "")
ThrowEvent(th) == Event("throw", th, 0, "", "")
Finished(s, th) == [s EXCEPT !.threads[th] = IdleThread]

\* homey.settings.get(key), and the record a reference leads to.
Get(s, key) ==
    IF s.settings[key] = 0 THEN NoRef
    ELSE IF getCopies THEN [id |-> 0, val |-> s.objects[s.settings[key]], key |-> key]
    ELSE [id |-> s.settings[key], val |-> NoTokens, key |-> key]
Val(s, ref) == IF ref.id > 0 THEN s.objects[ref.id] ELSE ref.val

\* updateConfig(): this.tokens and, if there is a record, this.accessToken.
UpdateConfig(s) ==
    LET r == Get(s, "brand")
    IN  IF IsNull(r) THEN [s EXCEPT !.tokens = r]
        ELSE [s EXCEPT !.tokens = r, !.accessToken = Val(s, r).accessToken]

\* The record under the key of brand, else the one under the old key.
StoredTokens(s, brand) ==
    LET r == Get(s, brand) IN IF ~IsNull(r) THEN r ELSE Get(s, "legacy")

\* refreshTokens: the record with a refresh token under the key of brand,
\* else the one under the old key.
RefreshTarget(s, brand) ==
    LET r == Get(s, brand)
    IN  IF ~IsNull(r) /\ Val(s, r).refreshToken # "" THEN r ELSE Get(s, "legacy")

\* Mutant of NeedsRefresh: a record exactly five minutes from expiry counts
\* as expiring.
NeedsRefreshAtFiveMinutes(expiresAt, t) == expiresAt - t <= FiveMinutes

\* tokens.expiresAt - Date.now() < fiveMinutes
NeedsRefresh(expiresAt, t) == expiresAt - t < FiveMinutes

\* refreshTokens() up to its fetch: thread th is suspended at the fetch of
\* the grant, or, with no refresh token to send, at the await of a
\* refreshTokens that has caught its own error.
RefreshTokens(s, th) ==
    LET target == RefreshTarget(s, BrandOf(th))
        found == IF IsNull(target) THEN "" ELSE Val(s, target).refreshToken
        s1 == [Logged(s, RefreshEvent(th, found, target.key)) EXCEPT !.attempts = @ + 1]
    IN  IF found = ""
        THEN [Logged(s1, FailedEvent(th)) EXCEPT !.threads[th].pc = "resume"]
        ELSE [Logged(s1, GrantEvent(th, Val(s, target).refreshToken))
                 EXCEPT !.threads[th].pc = "grant", !.threads[th].target = target]

\* The token endpoint's answers: a grant (access_token, refresh_token or
\* none, expires_in seconds), a non-2xx status, no answer.
GrantReplies ==
    { [ok |-> TRUE, access_token |-> "at1", refresh_token |-> "rt1", expires_in |-> 3600],
      [ok |-> TRUE, access_token |-> "at2", refresh_token |-> "", expires_in |-> 1],
      [ok |-> FALSE, access_token |-> "http", refresh_token |-> "", expires_in |-> 0],
      [ok |-> FALSE, access_token |-> "transport", refresh_token |-> "", expires_in |-> 0] }

\* refreshTokens() from the answer on: the record is updated in place and
\* stored under the brand's key; StellantisClient also takes the new access
\* token.  A failure is caught and logged.
GrantAnswered(s, th, data) ==
    IF ~data.ok THEN Logged(s, FailedEvent(th))
    ELSE
        LET target == s.threads[th].target
            new == [Val(s, target) EXCEPT
                        !.accessToken = data.access_token,
                        !.refreshToken = IF data.refresh_token # "" THEN data.refresh_token ELSE @,
                        !.expiresAt = now + data.expires_in * 1000]
            id == IF target.id > 0 THEN target.id
                  ELSE IF BrandOf(th) = "brand" THEN 1 ELSE 3
        IN  [Logged(s, GrantedEvent(th, data.access_token)) EXCEPT
                      !.objects[id] = new,
                      !.settings[BrandOf(th)] = id,
                      !.accessToken = IF th \in {"check", "get"} THEN data.access_token ELSE @]

\* StellantisClient.getAccessToken() up to its await or its return.
GetAccessToken(s, th) ==
    IF IsNull(s.tokens) THEN Finished(Logged(s, ThrowEvent(th)), th)
    ELSE LET t == Val(s, s.tokens)
             s1 == Logged(s, CheckEvent(th, t.expiresAt, s.tokens.key))
         IN  IF NeedsRefresh(t.expiresAt, now) THEN RefreshTokens(s1, th)
             ELSE Finished(Logged(s1, ReturnEvent(th, t.accessToken)), th)

\* StellantisApp.getAccessToken(brand) up to its await or its return.
AppGetAccessToken(s, th) ==
    LET r == StoredTokens(s, BrandOf(th))
    IN  IF IsNull(r) THEN Finished(Logged(s, ThrowEvent(th)), th)
        ELSE LET t == Val(s, r)
                 s1 == Logged(s, CheckEvent(th, t.expiresAt, r.key))
             IN  IF NeedsRefresh(t.expiresAt, now) THEN RefreshTokens(s1, th)
                 ELSE Finished(Logged(s1, ReturnEvent(th, t.accessToken)), th)

\* The last statement of checkAndRefreshTokens: this.updateAccessToken(at).
UpdateAccessToken(s, th, at) == [Logged(s, DoneEvent(th, at)) EXCEPT !.accessToken = at]

\* checkAndRefreshTokens() up to its await or its end.
CheckAndRefreshTokens(s, th) ==
    LET r == StoredTokens(s, BrandOf(th))
    IN  IF IsNull(r) THEN Finished(s, th)
        ELSE LET s1 == IF s.accessToken = "" THEN UpdateConfig(s) ELSE s
                 t == Val(s1, r)
                 s2 == [Logged(s1, CheckEvent(th, t.expiresAt, r.key)) EXCEPT !.threads[th].tokens = r]
             IN  IF NeedsRefresh(t.expiresAt, now) THEN RefreshTokens(s2, th)
                 ELSE Finished(UpdateAccessToken(s2, th, t.accessToken), th)

\* What thread th does once its refreshTokens() has returned.
AfterRefresh(s, th) ==
    IF th = "check"
    THEN Finished(UpdateAccessToken(s, th, Val(s, s.threads[th].tokens).accessToken), th)
    ELSE IF th = "get" THEN GetAccessToken(s, th)
    ELSE AppGetAccessToken(s, th)

\* A state the bounded model goes on from.
WithinBounds(s) == s.attempts <= MaxAttempts

\* new StellantisClient(app, brandName): updateConfig(), setInterval, and
\* the first checkAndRefreshTokens().
NewStellantisClient ==
    /\ ~constructed
    /\ threads["check"].pc = "idle"
    /\ constructed' = TRUE
    /\ LET s == CheckAndRefreshTokens(UpdateConfig(TokenState), "check")
       IN  WithinBounds(s) /\ Becomes(s)
    /\ UNCHANGED <<now, getCopies, tokenCalls>>
    /\ UNCHANGED notTokens

\* The interval timer fires: checkAndRefreshTokens().
IntervalFires ==
    /\ constructed
    /\ threads["check"].pc = "idle"
    /\ tokenCalls < MaxTokenCalls
    /\ tokenCalls' = tokenCalls + 1
    /\ LET s == CheckAndRefreshTokens(TokenState, "check")
       IN  WithinBounds(s) /\ Becomes(s)
    /\ UNCHANGED <<now, getCopies, constructed>>
    /\ UNCHANGED notTokens

\* A driver calls the client's getAccessToken().
CallGetAccessToken ==
    /\ constructed
    /\ threads["get"].pc = "idle"
    /\ tokenCalls < MaxTokenCalls
    /\ tokenCalls' = tokenCalls + 1
    /\ LET s == GetAccessToken(TokenState, "get")
       IN  WithinBounds(s) /\ Becomes(s)
    /\ UNCHANGED <<now, getCopies, constructed>>
    /\ UNCHANGED notTokens

\* A driver calls the app's getAccessToken(brand).
CallAppGetAccessToken ==
    /\ threads["appget"].pc = "idle"
    /\ tokenCalls < MaxTokenCalls
    /\ tokenCalls' = tokenCalls + 1
    /\ LET s == AppGetAccessToken(TokenState, "appget")
       IN  WithinBounds(s) /\ Becomes(s)
    /\ UNCHANGED <<now, getCopies, constructed>>
    /\ UNCHANGED notTokens

\* A driver of the other brand calls the app's getAccessToken(brand).
CallOtherGetAccessToken ==
    /\ threads["other"].pc = "idle"
    /\ tokenCalls < MaxTokenCalls
    /\ tokenCalls' = tokenCalls + 1
    /\ LET s == AppGetAccessToken(TokenState, "other")
       IN  WithinBounds(s) /\ Becomes(s)
    /\ UNCHANGED <<now, getCopies, constructed>>
    /\ UNCHANGED notTokens

\* The token endpoint answers the grant of thread th (or the fetch fails).
GrantReply(th, data) ==
    /\ threads[th].pc = "grant"
    /\ LET s == AfterRefresh(GrantAnswered(TokenState, th, data), th)
       IN  WithinBounds(s) /\ Becomes(s)
    /\ UNCHANGED <<now, getCopies, constructed, tokenCalls>>
    /\ UNCHANGED notTokens

\* Thread th resumes after a refreshTokens() that sent nothing.
Resume(th) ==
    /\ threads[th].pc = "resume"
    /\ LET s == AfterRefresh(TokenState, th)
       IN  WithinBounds(s) /\ Becomes(s)
    /\ UNCHANGED <<now, getCopies, constructed, tokenCalls>>
    /\ UNCHANGED notTokens

\* A millisecond passes.
Tick ==
    /\ now < StartTime + MaxTicks
    /\ now' = now + 1
    /\ UNCHANGED <<objects, settings, getCopies, tokens, accessToken, constructed,
                   threads, tlog, attempts, tokenCalls>>
    /\ UNCHANGED notTokens

TokenNext ==
    \/ NewStellantisClient
    \/ IntervalFires
    \/ CallGetAccessToken
    \/ CallAppGetAccessToken
    \/ \E th \in ThreadIds, data \in GrantReplies : GrantReply(th, data)
    \/ \E th \in ThreadIds : Resume(th)
    \/ Tick

\* The operations of two brands.
BrandsNext ==
    \/ TokenNext
    \/ CallOtherGetAccessToken

\* The same operations with no history kept but whether the number of
\* refresh attempts is odd, so that an operation that does the same thing
\* again and again comes back to the same state after two attempts.
Unrecorded(s) == [s EXCEPT !.tlog = <<>>, !.attempts = @ % 2]

\* new StellantisClient(app, brandName), as above.
ConstructClient ==
    /\ ~constructed
    /\ constructed' = TRUE
    /\ Becomes(Unrecorded(CheckAndRefreshTokens(UpdateConfig(TokenState), "check")))
    /\ UNCHANGED <<now, getCopies, tokenCalls>>
    /\ UNCHANGED notTokens

\* A driver calls getAccessToken: the client's (th = "get") or the app's.
GetAccessTokenCalled(th) ==
    /\ th = "get" => constructed
    /\ threads[th].pc = "idle"
    /\ tokenCalls < MaxTokenCalls
    /\ tokenCalls' = tokenCalls + 1
    /\ Becomes(Unrecorded(IF th = "get" THEN GetAccessToken(TokenState, th)
                          ELSE AppGetAccessToken(TokenState, th)))
    /\ UNCHANGED <<now, getCopies, constructed>>
    /\ UNCHANGED notTokens

\* The token endpoint answers the grant of thread th (or the fetch fails),
\* and th goes on: getAccessToken calls itself again.
GrantAnswers(th, data) ==
    /\ threads[th].pc = "grant"
    /\ Becomes(Unrecorded(AfterRefresh(GrantAnswered(TokenState, th, data), th)))
    /\ UNCHANGED <<now, getCopies, constructed, tokenCalls>>
    /\ UNCHANGED notTokens

\* Thread th goes on after a refreshTokens() that sent nothing.
Resumes(th) ==
    /\ threads[th].pc = "resume"
    /\ Becomes(Unrecorded(AfterRefresh(TokenState, th)))
    /\ UNCHANGED <<now, getCopies, constructed, tokenCalls>>
    /\ UNCHANGED notTokens

\* The callers of getAccessToken, the client's and the app's, and all the
\* threads that wait for a refresh.
Callers == {"get", "appget"}
Refreshers == Callers \cup {"check"}

\* Thread th goes on after its refreshTokens().
GoesOn(th) ==
    \/ \E data \in GrantReplies : GrantAnswers(th, data)
    \/ Resumes(th)

RetryNext ==
    \/ ConstructClient
    \/ \E th \in Callers : GetAccessTokenCalled(th)
    \/ \E th \in Refreshers : GoesOn(th)
    \/ Tick

\* Every fetch is answered or fails, and every await is resumed.
RetryFairness == \A th \in Refreshers : WF_vars(GoesOn(th))

(***************************************************************************)
(* MqttTokenManager (control.ts): getAccessToken, cut at the await of       *)
(* refreshMqttToken ("refresh"), of Otp.getOtpCode inside getMqttToken      *)
(* ("otp") and of the password grant inside getMqttToken ("password").     *)
(* Otp.getOtpCode itself is the engine above; here it is a call that gives  *)
(* a code, gives null or throws.                                           *)
(***************************************************************************)
\* An entry of the manager's log: what call c did, and the manager's cached
\* token, refresh token, expiry and clock at that moment.
ManagerEvent(ev, c, m) ==
    [ev |-> ev, call |-> c, accessToken |-> m.accessToken,
     refreshToken |-> m.refreshToken, expiresAt |-> m.expiresAt, now |-> m.now]

\* this.accessToken && this.expiresAt && now < this.expiresAt
CachedUnexpired(m) == m.accessToken # "" /\ m.expiresAt # 0 /\ m.now < m.expiresAt

\* Mutant of HoldsRefreshToken: the refresh token is never used.
NeverRefreshes(m) == FALSE

\* if (this.refreshToken)
HoldsRefreshToken(m) == m.refreshToken # ""

\* The token endpoint's answers to either grant: a token (refresh_token or
\* none, expires_in seconds), or a failure.
MqttTokens ==
    { [ok |-> TRUE, access_token |-> "m1", refresh_token |-> "r1", expires_in |-> 1],
      [ok |-> TRUE, access_token |-> "m2", refresh_token |-> "", expires_in |-> 2],
      [ok |-> FALSE, access_token |-> "", refresh_token |-> "", expires_in |-> 0] }

\* updateToken(token)
updateToken(m, token) ==
    [m EXCEPT !.accessToken = token.access_token,
              !.refreshToken = token.refresh_token,
              !.expiresAt = m.now + token.expires_in * 1000]

\* The calls of getAccessToken suspended at an await.
AwaitingCalls == {c \in ManagerCalls : manager.pc[c] \in {"refresh", "otp", "password"}}

\* getAccessToken() is called (the calls are numbered in the order they are
\* made): the cached token is returned, or refreshMqttToken is awaited, or
\* getMqttToken is.
ManagerGetAccessToken(c) ==
    /\ manager.pc[c] = "new"
    /\ c > 1 => manager.pc[c - 1] # "new"
    /\ Cardinality(AwaitingCalls) < MaxAwaiting
    /\ IF CachedUnexpired(manager)
       THEN /\ manager' = [manager EXCEPT !.pc[c] = "returned"]
            /\ mlog' = [mlog EXCEPT ![c] = @ \o <<ManagerEvent("call", c, manager),
                                 ManagerEvent("return", c, manager)>>]
       ELSE IF HoldsRefreshToken(manager)
       THEN /\ manager' = [manager EXCEPT !.pc[c] = "refresh"]
            /\ mlog' = [mlog EXCEPT ![c] = @ \o <<ManagerEvent("call", c, manager),
                                 ManagerEvent("refresh", c, manager)>>]
       ELSE /\ manager' = [manager EXCEPT !.pc[c] = "otp"]
            /\ mlog' = [mlog EXCEPT ![c] = @ \o <<ManagerEvent("call", c, manager),
                                 ManagerEvent("otp", c, manager)>>]
    /\ UNCHANGED notManager

\* refreshMqttToken is answered: the token is taken and returned, or the
\* failure is caught and getMqttToken is awaited.
RefreshMqttTokenAnswered(c, token) ==
    /\ manager.pc[c] = "refresh"
    /\ IF token.ok
       THEN LET m == updateToken(manager, token)
            IN  /\ manager' = [m EXCEPT !.pc[c] = "returned"]
                /\ mlog' = [mlog EXCEPT ![c] = Append(@, ManagerEvent("return", c, m))]
       ELSE /\ manager' = [manager EXCEPT !.pc[c] = "otp"]
            /\ mlog' = [mlog EXCEPT ![c] = @ \o <<ManagerEvent("refreshfailed", c, manager),
                                 ManagerEvent("otp", c, manager)>>]
    /\ UNCHANGED notManager

\* getMqttToken: otp.getOtpCode() has given a code, and the password grant is
\* posted; or it has given null or thrown, and getAccessToken throws.
OtpCodeAnswered(c, issued) ==
    /\ manager.pc[c] = "otp"
    /\ IF issued
       THEN /\ manager' = [manager EXCEPT !.pc[c] = "password"]
            /\ mlog' = [mlog EXCEPT ![c] = Append(@, ManagerEvent("password", c, manager))]
       ELSE /\ manager' = [manager EXCEPT !.pc[c] = "thrown"]
            /\ mlog' = [mlog EXCEPT ![c] = Append(@, ManagerEvent("throw", c, manager))]
    /\ UNCHANGED notManager

\* getMqttToken: the password grant is answered; the token is taken and
\* returned, or getAccessToken throws.
PasswordGrantAnswered(c, token) ==
    /\ manager.pc[c] = "password"
    /\ IF token.ok
       THEN LET m == updateToken(manager, token)
            IN  /\ manager' = [m EXCEPT !.pc[c] = "returned"]
                /\ mlog' = [mlog EXCEPT ![c] = Append(@, ManagerEvent("return", c, m))]
       ELSE /\ manager' = [manager EXCEPT !.pc[c] = "thrown"]
            /\ mlog' = [mlog EXCEPT ![c] = Append(@, ManagerEvent("throw", c, manager))]
    /\ UNCHANGED notManager

\* A second passes.
ManagerTick ==
    /\ manager.now < StartTime + MaxSeconds * 1000
    /\ manager' = [manager EXCEPT !.now = @ + 1000]
    /\ UNCHANGED mlog
    /\ UNCHANGED notManager

ManagerNext ==
    \/ \E c \in ManagerCalls : ManagerGetAccessToken(c)
    \/ \E c \in ManagerCalls, token \in MqttTokens : RefreshMqttTokenAnswered(c, token)
    \/ \E c \in ManagerCalls, issued \in BOOLEAN : OtpCodeAnswered(c, issued)
    \/ \E c \in ManagerCalls, token \in MqttTokens : PasswordGrantAnswered(c, token)
    \/ ManagerTick

(***************************************************************************)
(* StellantisRemoteClient.validateOTP: the engine is restored from the      *)
(* settings store or activated anew, an OTP code is drawn, the password    *)
(* grant is posted, and the engine's snapshot is stored.  It is cut at the *)
(* awaits of the engine's methods, which run as above, and of the grant.   *)
(***************************************************************************)
\* What the last engine method called has returned or thrown.
LastReturn == trace[Len(trace)]

\* validateOTP returns `result`.
Returned(result) == [pc |-> "returned", result |-> result]

\* validateOTP's catch, by what was thrown.
Caught(thrown) ==
    IF thrown = "ConfigException" THEN Returned("requiresSetup: configuration invalid")
    ELSE Returned("unexpected error")

\* A method that starts with the Setup request is called on engine e.
SetupCalled(e, op, round) ==
    /\ otp' = e
    /\ trace' = Append(trace, Req(SetupRequest(e)))
    /\ pc' = "setup"
    /\ call' = [op |-> op, round |-> round]

\* validateOTP(homey, smsCode, pinCode, brandName, clientId) is called: the
\* stored snapshot is restored and getOtpCode called on it; or, none stored,
\* a new engine is given the SMS code and the PIN and activationStart is
\* called; or, without them, it returns.
CallValidateOTP(smsCode, pinCode, random) ==
    /\ flow.pc = "none"
    /\ CanCall
    /\ IF durable # NoSnapshot
       THEN /\ SetupCalled([fromJSON(durable[1], random) EXCEPT !.mode = "otp"],
                           "getOtpCode", 1)
            /\ flow' = [flow EXCEPT !.pc = "code"]
       ELSE IF ~Truthy(smsCode) \/ ~Truthy(pinCode)
       THEN /\ flow' = Returned("requiresSetup: no state")
            /\ UNCHANGED <<otp, trace, pc, call>>
       ELSE /\ SetupCalled([ConstructOtp("macid1", "dev1", random) EXCEPT
                                !.smsCode = smsCode, !.codepin = pinCode],
                           "activationStart", 0)
            /\ flow' = [flow EXCEPT !.pc = "start"]
    /\ UNCHANGED <<durable, synchroCalls>>
    /\ UNCHANGED notValidate

\* The engine method validateOTP awaits has returned or thrown: validateOTP
\* calls the next one, posts the password grant, or returns.
ValidateResumes ==
    /\ flow.pc \in {"start", "finalize", "code"}
    /\ pc = "idle"
    /\ LastReturn.ev = "ret"
    /\ IF LastReturn.value \in {"Error", "ConfigException"}
       THEN /\ flow' = Caught(LastReturn.value)
            /\ UNCHANGED <<otp, trace, pc, call>>
       ELSE IF flow.pc = "start"
       THEN IF LastReturn.value # "true"
            THEN /\ flow' = Returned("activation failed")
                 /\ UNCHANGED <<otp, trace, pc, call>>
            ELSE IF FinalizeThrowsEarly(otp)
            THEN /\ flow' = Caught("Error")
                 /\ UNCHANGED <<otp, trace, pc, call>>
            ELSE /\ CanSend
                 /\ trace' = Append(trace, Req(FinalizeRequest(otp)))
                 /\ pc' = "finalize"
                 /\ call' = [op |-> "activationFinalize", round |-> 0]
                 /\ flow' = [flow EXCEPT !.pc = "finalize"]
                 /\ UNCHANGED otp
       ELSE IF flow.pc = "finalize"
       THEN IF LastReturn.value # "OK"
            THEN /\ flow' = Returned("finalize failed")
                 /\ UNCHANGED <<otp, trace, pc, call>>
            ELSE /\ CanSend
                 /\ SetupCalled([otp EXCEPT !.mode = "otp"], "getOtpCode", 1)
                 /\ flow' = [flow EXCEPT !.pc = "code"]
       ELSE IF LastReturn.value # "code"
            THEN /\ flow' = Returned("no code")
                 /\ UNCHANGED <<otp, trace, pc, call>>
            ELSE /\ flow' = [flow EXCEPT !.pc = "grant"]
                 /\ UNCHANGED <<otp, trace, pc, call>>
    /\ UNCHANGED <<durable, synchroCalls>>
    /\ UNCHANGED notValidate

\* The password grant is answered: on success otp.toJSON() is stored under
\* the brand's key (settings.set is not in this repository: it stores the
\* snapshot or throws) and validateOTP returns the token; on failure it
\* returns the error.
ValidateGrantAnswered(ok, stored) ==
    /\ flow.pc = "grant"
    /\ IF ~ok THEN flow' = Returned("token request failed") /\ UNCHANGED durable
       ELSE IF ~stored THEN flow' = Caught("Error") /\ UNCHANGED durable
       ELSE flow' = Returned("success") /\ durable' = <<toJSON(otp)>>
    /\ UNCHANGED ovars
    /\ UNCHANGED notValidate

\* A reply to the engine method validateOTP is waiting for.
ValidateReply ==
    /\ flow.pc \in {"start", "finalize", "code"}
    /\ \/ \E xml \in SetupReplies : ReplySetup(xml)
       \/ \E xml \in FinalizeReplies, rnd \in RandomValues : ReplyFinalize(xml, rnd)
       \/ \E xml2 \in FinalizeReplies : ReplyMs(xml2)

\* The SMS codes and PINs validateOTP is called with.
SmsCodes == {"1234", ""}
PinCodes == {"5678", "0000", ""}

ValidateNext ==
    \/ \E sms \in SmsCodes, pin \in PinCodes, random \in RandomHex :
          CallValidateOTP(sms, pin, random)
    \/ ValidateReply
    \/ ValidateResumes
    \/ \E ok \in BOOLEAN, stored \in BOOLEAN : ValidateGrantAnswered(ok, stored)

\* What the settings store holds when validateOTP is called: nothing, or the
\* snapshot of an engine, activated or not.
Snapshots ==
    {NoSnapshot} \cup {<<toJSON(e)>> : e \in {BareOtp, ActivatingOtp, Activated(ActivatingOtp)}}
ValidateStores == {[EmptyStore EXCEPT !.otpState = snapshot] : snapshot \in Snapshots}

(***************************************************************************)
(* Specifications.                                                         *)
(***************************************************************************)
\* The command path, with the connection events it depends on.
DispatchNext ==
    \/ Connect
    \/ OnConnect
    \/ OnClose
    \/ SendCommand
    \/ \E k \in Calls : TimerFire(k)
    \/ \E k \in Calls, error \in BOOLEAN : PublishCallback(k, error)
    \/ \E m \in Messages : HandleMessage(m)
    \/ Disconnect

SpecDispatch == InitWith({BareOtp}, {NoArgs}, {EmptyStore}) /\ [][DispatchNext]_vars

\* Node runs a due timer callback: an armed timer eventually fires.
SpecDispatchFair ==
    InitWith({BareOtp}, {NoArgs}, {EmptyStore}) /\ [][DispatchNext]_vars /\ \A k \in Calls : WF_vars(TimerFire(k))

\* The connection lifecycle: connect(), the transport's events, disconnect().
ConnectNext ==
    \/ Connect
    \/ OnConnect
    \/ \E t \in Topics, err \in BOOLEAN : SubscribeCallback(t, err)
    \/ OnError
    \/ OnClose
    \/ Disconnect

SpecConnect == InitWith({BareOtp}, {NoArgs}, {EmptyStore}) /\ [][ConnectNext]_vars

\* The OTP engine driven through its public methods.
SpecOtp == InitWith({BareOtp, ActivatingOtp}, {NoArgs}, {EmptyStore}) /\ [][OtpNext]_vars

\* The module's functions, each applied once to arguments out of a bounded set.
SpecOtpCode == InitWith({BareOtp}, CodeEngines \X CodeEngines, {EmptyStore}) /\ [][ApplyGetOtpCode]_vars
SpecSnapshot == InitWith({BareOtp}, SnapshotInputs, {EmptyStore}) /\ [][ApplySnapshot]_vars
SpecDiagnostics == InitWith({BareOtp}, DiagnosticInputs, {EmptyStore}) /\ [][ApplyValidateLines]_vars
SpecRestore == InitWith({BareOtp}, RestoreInputs, {EmptyStore}) /\ [][ApplyRestoreAndRun]_vars
SpecGetR == InitWith({BareOtp}, GetRInputs, {EmptyStore}) /\ [][ApplyGetR]_vars
SpecDecode == InitWith({BareOtp}, DecodeInputs, {EmptyStore}) /\ [][ApplyDecodeOaep]_vars
SpecSeparator == InitWith({BareOtp}, DataBlocks, {EmptyStore}) /\ [][ApplyStripSeparator]_vars
SpecOtpNumber == InitWith({BareOtp}, Words \X Words, {EmptyStore}) /\ [][ApplyOtpNumber]_vars
SpecBase36 == InitWith({BareOtp}, Base36Inputs, {EmptyStore}) /\ [][ApplyNumberToBase36]_vars
SpecMgf1 == InitWith({BareOtp}, Mgf1Inputs, {EmptyStore}) /\ [][ApplyMgf1]_vars
SpecOaep == InitWith({BareOtp}, OaepInputs, {EmptyStore}) /\ [][ApplyOaep]_vars

\* The token lifecycle of one brand.
SpecTokens == InitWith({BareOtp}, {NoArgs}, Stores) /\ [][TokenNext]_vars

\* The token lifecycles of two brands over one settings store.
SpecBrands == InitWith({BareOtp}, {NoArgs}, Stores) /\ [][BrandsNext]_vars

\* getAccessToken and the refreshes it waits for, under fair scheduling.
SpecRetry == InitWith({BareOtp}, {NoArgs}, Stores) /\ [][RetryNext]_vars /\ RetryFairness

\* One MqttTokenManager and its callers.
SpecManager == InitWith({BareOtp}, {NoArgs}, {EmptyStore}) /\ [][ManagerNext]_vars

\* validateOTP, from an empty store and from stored snapshots.
SpecValidate == InitWith({BareOtp}, {NoArgs}, ValidateStores) /\ [][ValidateNext]_vars

\* IWData.synchro called on a new IWData.
SpecSynchro == InitWith({BareOtp}, {NoArgs}, {EmptyStore}) /\ [][SynchroNext]_vars

(***************************************************************************)
(* Properties of the command dispatcher.                                   *)
(***************************************************************************)
Settled == {"resolved", "commandfailed", "timeout", "publisherror"}

\* C1: a message carrying the correlation id of a pending command settles
\* that command: resolved when return_code or process_code is the string '0',
\* rejected as a command failure otherwise.
C1_MatchingResponseSettles ==
    [][\A k \in Calls :
          promise[k] = "pending" =>
             \A m \in Messages :
                (m.json /\ m.corr = corr[k] /\ HandleMessage(m)) =>
                   /\ promise'[k] =
                         IF m.return_code = "str0" \/ m.process_code = "str0"
                         THEN "resolved" ELSE "commandfailed"
                   /\ invoked'[k] = invoked[k] + 1]_vars

\* One command resolved and another rejected as a command failure.
C1_Witness ==
    \E k, j \in Calls :
        /\ promise[k] = "resolved" /\ invoked[k] = 1
        /\ promise[j] = "commandfailed" /\ invoked[j] = 1

\* C2: a message leaves every command with a different correlation id alone:
\* a step that touches a command's promise, waiter, timer or handler is not
\* the receipt of a message carrying another id; and no step settles two
\* commands.
C2_OtherCorrelationIdUntouched ==
    [][/\ \A k \in Calls :
             (/\ corr[k] # 0
              /\ \/ promise'[k] # promise[k]
                 \/ responseHandlers'[corr[k]] # responseHandlers[corr[k]]
                 \/ timer'[k] # timer[k]
                 \/ invoked'[k] # invoked[k])
             => \A m \in Messages : m.corr # corr[k] => ~HandleMessage(m)
       /\ \A k, j \in Calls :
             (promise'[k] # promise[k] /\ promise'[j] # promise[j]) => k = j]_vars

\* One command settled by its response while another is still waiting.
C2_Witness ==
    \E k, j \in Calls :
        /\ k # j
        /\ promise[k] \in {"resolved", "commandfailed"}
        /\ promise[j] = "pending"
        /\ responseHandlers[corr[j]] = j

\* C3: a pending command's timer is armed with 30000 ms; when it fires the
\* command is rejected with the timeout failure (not the command failure) and
\* its waiter leaves the map; a response for a timed-out id changes nothing.
C3_TimeoutRejectsAndRemoves ==
    /\ [](\A k \in Calls : promise[k] = "pending" => timer[k] = 30000)
    /\ [][\A k \in Calls :
             (promise[k] = "pending" /\ TimerFire(k)) =>
                /\ promise'[k] = "timeout"
                /\ promise'[k] # "commandfailed"
                /\ responseHandlers'[corr[k]] = 0]_vars
    /\ [][\A k \in Calls :
             promise[k] = "timeout" =>
                \A m \in Messages :
                   (m.corr = corr[k] /\ HandleMessage(m)) => UNCHANGED vars]_vars
    /\ [](\A k \in Calls : promise[k] = "timeout" =>
             (invoked[k] = 0 /\ responseHandlers[corr[k]] = 0))

\* A command timed out, its waiter gone and never invoked.
C3_Witness ==
    \E k \in Calls :
        /\ promise[k] = "timeout"
        /\ responseHandlers[corr[k]] = 0
        /\ invoked[k] = 0
        /\ timer[k] = 0

\* C4: every command that registered a waiter eventually settles, and once
\* settled its outcome never changes, whatever the order of the publish
\* callback, the message callback and the timer.
C4_SettlesExactlyOnce ==
    /\ \A k \in Calls : (promise[k] = "pending") ~> (promise[k] \in Settled)
    /\ [][\A k \in Calls : promise[k] \in Settled => promise'[k] = promise[k]]_vars

\* A command settled by its timer while its publish callback is outstanding.
C4_Witness ==
    \E k \in Calls : promise[k] = "timeout" /\ pubCb[k]

\* C5: after disconnect() the pending map is empty and every pending command
\* has been rejected.
C5_DisconnectClearsWaiters ==
    (disconnectCalls > 0 /\ client = "null") =>
        /\ \A c \in CorrIds : responseHandlers[c] = 0
        /\ \A k \in Calls : promise[k] # "pending"

\* C6: connect() resolves only once the 'connect' event has fired; a
\* subscribe callback, with or without an error, only logs and leaves the
\* promise as it is; after the handshake the promise is settled, and rejected
\* only if the transport raised an error.
C6_ConnectResolvesAfterHandshake ==
    /\ [](connPromise = "resolved" => handshake)
    /\ [](handshake => connPromise \in {"resolved", "rejected"})
    /\ [](connPromise = "rejected" => errorFired)
    /\ [][\A t \in Topics, err \in BOOLEAN :
             SubscribeCallback(t, err) =>
                /\ connPromise' = connPromise
                /\ subLog'[t] = IF err THEN "error" ELSE "subscribed"]_vars

\* connect() resolved although a subscription failed.
C6_Witness ==
    /\ connPromise = "resolved"
    /\ \E t \in Topics : subLog[t] = "error"

\* C7: a call that passes the connection check publishes exactly one message
\* (a call refused as not connected publishes none), never a second one after
\* a timeout, command failure or publish error, and no two calls share a
\* correlation id.
C7_NoRetry ==
    /\ \A k \in Calls :
          published[k] = IF promise[k] \in {"none", "notconnected"} THEN 0 ELSE 1
    /\ \A k \in Calls : (promise[k] \in Settled \cup {"pending"}) <=> corr[k] # 0
    /\ \A k, j \in Calls : (k # j /\ corr[k] # 0) => corr[k] # corr[j]

\* Two commands failed, one by timeout and one by publish error, each
\* published once.
C7_Witness ==
    \E k, j \in Calls :
        /\ promise[k] = "timeout" /\ published[k] = 1
        /\ promise[j] \in {"publisherror", "commandfailed"} /\ published[j] = 1

(***************************************************************************)
(* Properties of the OTP session engine.                                   *)
(***************************************************************************)
\* SHA256(pin ";" deviceId "/_/" salt) cut to 32 hex characters.
DerivedKma(pin, deviceId, salt) == <<"sha256/32", pin, ";", <<deviceId, "/_/", salt>>>>

C9_SynchroIdempotentAfterFirstSet ==
    /\ [](Len(trace) >= 1 =>
             /\ otp.data.iwK0 = trace[1].kma
             /\ otp.data.iwK1 = trace[1].kma)
    /\ [][\A xml \in SynchroReplies, kma \in KmaArguments :
             SynchroCall(xml, kma) =>
                /\ otp'.data.iwTsync =
                      IF xml.tsync \in {Absent, Zero, ""} THEN otp.data.iwTsync ELSE xml.tsync
                /\ otp'.data.iwid =
                      IF xml.id \in {Absent, Zero, ""} THEN otp.data.iwid ELSE xml.id]_vars

\* Three calls with three different Kma arguments; the keys are the first,
\* the timestamp is a later reply's.
C9_Witness ==
    /\ Len(trace) = 3
    /\ trace[2].kma # trace[1].kma
    /\ trace[3].kma # trace[1].kma
    /\ otp.data.iwK0 = trace[1].kma
    /\ otp.data.iwK1 = trace[1].kma
    /\ otp.data.iwTsync = "ts2"
    /\ otp.data.iwid = "id1"

\* The activation scenario: the engine's first call is activationStart in
\* activate mode, answered OK with factory key, wrapped working key and pin
\* mode; its second is activationFinalize, answered OK with no secondary
\* exchange requested.
ActivationScenario ==
    /\ Len(trace) >= 5
    /\ trace[1].ev = "req"
    /\ trace[1].req.action = "ActionSetup" /\ trace[1].req.mode = "activate"
    /\ trace[2].ev = "reply"
    /\ trace[2].xml.err = "OK"
    /\ trace[2].xml.Kfact # Absent /\ trace[2].xml.Kiw # AbsentT
    /\ trace[2].xml.pinmode # Absent
    /\ trace[3].ev = "ret"
    /\ trace[4].ev = "req"
    /\ trace[4].req.action = "ActionFinalize" /\ trace[4].req.mode = "activate"
    /\ trace[5].ev = "reply"
    /\ trace[5].xml.err = "OK"
    /\ trace[5].xml.ms_n \in {Absent, "0"}

\* C10: the activation scenario ends with activationFinalize returning OK,
\* K0 = K1 = the Kma derived from the PIN, and exactly the one Setup and the
\* one Finalize request sent, none in ms mode.
C10_PlainActivation ==
    ActivationScenario =>
        /\ Len(trace) >= 6
        /\ trace[3].op = "activationStart" /\ trace[3].value = "true"
        /\ trace[6].ev = "ret"
        /\ trace[6].op = "activationFinalize" /\ trace[6].value = "OK"
        /\ otp.data.iwK0 = DerivedKma(otp.codepin, otp.device_id, otp.iwalea)
        /\ otp.data.iwK1 = otp.data.iwK0
        /\ otp.codepin = "5678"
        /\ Len(Requests(SubSeq(trace, 1, 6))) = 2
        /\ \A i \in 1..6 : trace[i].ev = "req" => trace[i].req.mode # "ms"

\* The scenario has just completed: nothing but its six events happened.
C10_Witness ==
    /\ ActivationScenario
    /\ Len(trace) = 6
    /\ pc = "idle"
    /\ trace[5].xml.ms_n = "0"

(***************************************************************************)
(* The calls recorded in a trace.                                          *)
(***************************************************************************)
Replies(t) == SelectSeq(t, LAMBDA x : x.ev = "reply")

\* The trace ends with the return or throw of public method `op`.
JustReturned(op) ==
    /\ trace # <<>>
    /\ trace[Len(trace)].ev = "ret"
    /\ trace[Len(trace)].op = op

\* The events of the call that returned last: those after the return before.
LastCall ==
    LET n == Len(trace)
        before == {i \in 1..(n - 1) : trace[i].ev = "ret"}
        from == IF before = {} THEN 0 ELSE CHOOSE i \in before : \A j \in before : j <= i
    IN  SubSeq(trace, from + 1, n)

\* A Finalize reply that makes activationFinalize in otp mode return
\* OTP_TWICE, and one that makes it return OK.
ForcesRechallenge(xml) == xml # Failed /\ xml.err = "OK" /\ Truthy(xml.defi) /\ Truthy(xml.J)
IssuesOtp(xml) == xml # Failed /\ xml.err = "OK" /\ Truthy(xml.defi) /\ ~Truthy(xml.J)
SetupOk(xml) == xml # Failed /\ xml.err = "OK"

\* C11: in getOtpCode, a first Finalize reply that forces a re-challenge is
\* followed by exactly one more Setup request and, when that Setup succeeds,
\* exactly one more Finalize request; a code is returned only when that second
\* Finalize reply is OK without the re-challenge flag; without a forced
\* re-challenge there is one round only; and the Finalize reply of the round a
\* code is returned from never carries the re-challenge flag.
C11_RechallengeRepeatsOnce ==
    JustReturned("getOtpCode") =>
        LET ev == LastCall
            reqs == Requests(ev)
            reps == Replies(ev)
            ret == ev[Len(ev)]
        IN  /\ Len(reqs) <= 4
            /\ (Len(reps) >= 2 /\ ForcesRechallenge(reps[2].xml)) =>
                  /\ Len(reqs) >= 3
                  /\ reqs[3].req.action = "ActionSetup"
                  /\ reqs[3].req.mode = "otp"
                  /\ Len(reps) >= 3
                  /\ SetupOk(reps[3].xml) =>
                        /\ Len(reqs) = 4
                        /\ reqs[4].req.action = "ActionFinalize"
                        /\ reqs[4].req.mode = "otp"
                        /\ Len(reps) = 4
                  /\ ~SetupOk(reps[3].xml) => Len(reqs) = 3
                  /\ ret.value = "code" <=> (Len(reps) = 4 /\ IssuesOtp(reps[4].xml))
            /\ (Len(reps) >= 2 /\ ~ForcesRechallenge(reps[2].xml)) => Len(reqs) = 2
            /\ Len(reps) < 2 => Len(reqs) = 1
            /\ ret.value = "code" =>
                  /\ Len(reps) \in {2, 4}
                  /\ IssuesOtp(reps[Len(reps)].xml)
                  /\ ret.code = getOtpCodeValue(otp)

\* getOtpCode returned a code after a forced re-challenge and a second round.
C11_Witness ==
    /\ JustReturned("getOtpCode")
    /\ trace[Len(trace)].value = "code"
    /\ Len(Requests(LastCall)) = 4
    /\ ForcesRechallenge(Replies(LastCall)[2].xml)

\* The call that returned last was activationFinalize in activate mode and
\* its first reply had status OK.
FinalizeAnsweredOk ==
    /\ JustReturned("activationFinalize")
    /\ Len(Replies(LastCall)) >= 1
    /\ Requests(LastCall)[1].req.mode = "activate"
    /\ Replies(LastCall)[1].xml # Failed
    /\ Replies(LastCall)[1].xml.err = "OK"

\* C12: when activationFinalize (activation) is answered OK with exactly one
\* secondary exchange requested, it sends at most one follow-up request, and
\* sends it whenever the wrapped session key decodes; when it returns OK it
\* has sent exactly one follow-up, an ActionFinalize in ms mode carrying the
\* server's session id, the exchange id and the random value encrypted under
\* the decoded session key, has kept the AES-encrypted random value, and has
\* applied synchro to the follow-up's reply.
C12_OneSecondaryExchange ==
    (FinalizeAnsweredOk /\ Replies(LastCall)[1].xml.ms_n = "1") =>
        LET ev == LastCall
            reqs == Requests(ev)
            reps == Replies(ev)
            ret == ev[Len(ev)]
            xml == reps[1].xml
        IN  /\ Len(reqs) <= 2
            /\ CanDecode(xml.ms_key, otp.Kfact) => Len(reqs) = 2
            /\ ret.value \in {"OK", "Error"}
            /\ ret.value = "OK" =>
                  /\ Len(reqs) = 2 /\ Len(reps) = 2
                  /\ reqs[2].req.action = "ActionFinalize"
                  /\ reqs[2].req.mode = "ms"
                  /\ reqs[2].req.ms_id0 = xml.ms_id
                  /\ Truthy(xml.id) => reqs[2].req.id = xml.id
                  /\ \E rnd \in RandomValues :
                        /\ reqs[2].req.ms_val0 = <<"oaep", rnd, xml.ms_key[2]>>
                        /\ otp.data.iwsecval =
                              <<"aes-128-ecb",
                                DerivedKma(otp.codepin, otp.device_id, otp.iwalea), rnd>>
                  /\ otp.data.iwsecid = xml.s_id
                  /\ otp.data.iwsecn = 1
                  /\ Truthy(reps[2].xml.tsync) => otp.data.iwTsync = reps[2].xml.tsync
                  /\ Truthy(reps[2].xml.id) => otp.data.iwid = reps[2].xml.id

\* activationFinalize returned OK after one secondary exchange whose reply
\* moved the sync timestamp.
C12_Witness ==
    /\ FinalizeAnsweredOk
    /\ Replies(LastCall)[1].xml.ms_n = "1"
    /\ trace[Len(trace)].value = "OK"
    /\ Len(Requests(LastCall)) = 2
    /\ Replies(LastCall)[1].xml.tsync = "ts1"
    /\ otp.data.iwTsync = "ts2"

C14_FailureRaisesFault ==
    JustReturned("getOtpCode") =>
        LET ev == LastCall
            reps == Replies(ev)
            ret == ev[Len(ev)]
        IN  /\ ret.value \in {"code", "ConfigException"}
            /\ ret.value = "ConfigException" => ret.msg[1] = "Cannot get otp code: "
            /\ (\E i \in 1..Len(reps) : reps[i].xml = Failed \/ reps[i].xml.err # "OK")
                  => ret.value = "ConfigException"

\* C15: a Setup reply whose status is not OK makes activationStart throw a
\* ConfigException whose message is the serialised reply (inside getOtpCode,
\* that exception wrapped), and leaves the engine (challenge, K0, K1, working
\* key, cipher and everything else) as it was.
C15_SetupFailureLeavesEngine ==
    [][\A xml \in SetupReplies :
         (xml # Failed /\ xml.err # "OK" /\ ReplySetup(xml)) =>
            /\ otp' = otp
            /\ trace'[Len(trace')].ev = "ret"
            /\ trace'[Len(trace')].value = "ConfigException"
            /\ trace'[Len(trace')].msg =
                  IF call.op = "activationStart" THEN <<"json", xml>>
                  ELSE <<"Cannot get otp code: ", <<"json", xml>>>>
            /\ pc' = "idle"]_vars

\* activationStart has thrown on a NOK reply that carried a challenge and
\* keys.
C15_Witness ==
    /\ JustReturned("activationStart")
    /\ trace[Len(trace)].value = "ConfigException"
    /\ Replies(LastCall)[1].xml.challenge = "chal3"
    /\ otp.challenge = ""
    /\ otp.Kfact = Null

\* C16: two engines that agree on K1, defi and the secondary value get the
\* same code from _getOtpCode, whatever the rest of their state, and the call
\* leaves each engine as it was.
C16_OtpCodePure ==
    Applied =>
        LET e1 == arg[1]
            e2 == arg[2]
            r1 == res[1][1]
            r2 == res[1][2]
        IN  /\ (/\ e1.data.iwK1 = e2.data.iwK1
                /\ e1.defi = e2.defi
                /\ e1.data.iwsecval = e2.data.iwsecval) => r1.code = r2.code
            /\ r1.e = e1
            /\ r2.e = e2

\* Two engines with the same K1, defi and secondary value but another K0,
\* challenge, PIN, mode, action and identity got the same code.
C16_Witness ==
    /\ Applied
    /\ arg[1].data.iwK1 = arg[2].data.iwK1
    /\ arg[1].defi = 5 /\ arg[2].defi = 5
    /\ arg[1].data.iwsecval = arg[2].data.iwsecval
    /\ arg[1].data.iwsecval # Empty
    /\ arg[1].challenge # arg[2].challenge
    /\ arg[1].codepin # arg[2].codepin
    /\ arg[1].data.iwK0 # arg[2].data.iwK0
    /\ res[1][1].code = res[1][2].code

\* The value of a lowercase base-36 numeral: digits 0-9 then a-z, highest
\* digit first.
Base36Numerals ==
    <<"0", "1", "2", "3", "4", "5", "6", "7", "8", "9",
      "a", "b", "c", "d", "e", "f", "g", "h", "i", "j", "k", "l", "m",
      "n", "o", "p", "q", "r", "s", "t", "u", "v", "w", "x", "y", "z">>
DigitValue(c) == (CHOOSE i \in 1..36 : Base36Numerals[i] = c) - 1
RECURSIVE ParseBase36(_)
ParseBase36(str) ==
    IF str = <<>> THEN 0
    ELSE 36 * ParseBase36(SubSeq(str, 1, Len(str) - 1)) + DigitValue(str[Len(str)])

\* C17: numberToBase36(0) is "0", numberToBase36(n) read as a lowercase
\* base-36 numeral is n, and no other number has the same encoding.
C17_Base36RoundTrip ==
    Applied =>
        /\ arg = 0 => res[1] = <<"0">>
        /\ Len(res[1]) <= 5 => ParseBase36(res[1]) = arg
        /\ \A m \in 0..MaxNumber : m # arg => numberToBase36(m) # res[1]

\* C18: mgf1(seed, length) has exactly `length` bytes.
C18_Mgf1Length == Applied => Len(res[1]) = arg.length

\* mgf1 of an empty seed returned 33 bytes: two SHA-256 digests cut short.
C18_Witness ==
    /\ Applied
    /\ arg.seed = <<>>
    /\ arg.hashAlgo = "sha256"
    /\ arg.length = 33
    /\ Len(res[1]) = 33
    /\ res[1][33] = <<"sha256", <<>>, 1, 1>>

Examines(i) == i \in 1..Len(tlog) /\ tlog[i].ev = "check"

\* The operation of entry i goes on to refreshTokens.
Refreshes(i) ==
    /\ i < Len(tlog)
    /\ tlog[i + 1].ev = "refresh"
    /\ tlog[i + 1].th = tlog[i].th
    /\ tlog[i + 1].now = tlog[i].now

\* The refreshTokens entered after entry i sends the refresh-token grant.
SendsGrant(i) ==
    /\ i + 1 < Len(tlog)
    /\ tlog[i + 2].ev = "grant"
    /\ tlog[i + 2].th = tlog[i].th
    /\ tlog[i + 2].at = tlog[i + 1].at

LatestGrant(i, j) ==
    /\ i < j
    /\ tlog[i].ev = "granted"
    /\ \A k \in (i + 1)..(j - 1) : tlog[k].ev # "granted"

\* C21: after a refresh-token grant has succeeded, every later token read
\* gives the refreshed value: a getAccessToken that ends returns the new
\* access token, not an error, and a checkAndRefreshTokens that ends leaves
\* the new access token in the client's accessToken field.
C21_ReadsReturnRefreshed ==
    \A i, j \in 1..Len(tlog) :
        LatestGrant(i, j) =>
            /\ tlog[j].ev \in {"return", "done"} => tlog[j].at = tlog[i].at
            /\ tlog[j].ev # "throw"

\* The refreshTokens of thread th fails in this step: it found no refresh
\* token, or the token endpoint answers with a failure.
GrantFails(th) ==
    \/ Resume(th)
    \/ \E data \in GrantReplies : ~data.ok /\ GrantReply(th, data)

\* C22: when a refresh-token grant fails (no refresh token, HTTP failure,
\* transport error) the stored records and the client's access token stay as
\* they are, and a getAccessToken that was waiting for the grant ends by
\* throwing the error to its caller.
C22_FailureRetainedAndSurfaced ==
    [][\A th \in ThreadIds :
          GrantFails(th) =>
              /\ objects' = objects
              /\ settings' = settings
              /\ accessToken # "" => accessToken' = accessToken
              /\ th \in {"get", "appget"} =>
                    /\ threads'[th].pc = "idle"
                    /\ tlog'[Len(tlog')].ev = "throw"]_vars

\* The operations of the brand's StellantisClient whose refresh-token grant
\* has been sent and not yet answered.
InFlight == {th \in {"check", "get"} : threads[th].pc = "grant"}

\* C23: for one brand at most one refresh-token grant is in flight at any
\* time: a refresh triggered by the timer, the constructor or getAccessToken
\* while another is in flight sends no second request.
C23_OneGrantInFlight == Cardinality(InFlight) <= 1

\* The record the manager of brand would read now.
UsedBy(brand) == Val(TokenState, StoredTokens(TokenState, brand))

\* A step of an operation of the brand, not of the other brand.
BrandStep ==
    \/ NewStellantisClient
    \/ IntervalFires
    \/ CallGetAccessToken
    \/ CallAppGetAccessToken
    \/ \E th \in ThreadIds \ {"other"} :
          \/ Resume(th)
          \/ \E data \in GrantReplies : GrantReply(th, data)

\* C24: brands are independent: no two refreshes of different brands work on
\* the record of the same settings key, and no step of an operation of one
\* brand changes the token record the other brand's manager reads.
C24_BrandsIndependent ==
    /\ [](\A i, j \in 1..Len(tlog) :
             /\ tlog[i].ev = "refresh" /\ tlog[j].ev = "refresh"
             /\ BrandOf(tlog[i].th) # BrandOf(tlog[j].th)
             => tlog[i].key = "" \/ tlog[i].key # tlog[j].key)
    /\ [][BrandStep => UsedBy("other")' = UsedBy("other")]_vars

\* Call c of getAccessToken has been made, and at that moment a token was
\* cached and unexpired.
ManagerCalled(c) == Len(mlog[c]) > 0
Unexpired(c) == mlog[c][1].accessToken # "" /\ mlog[c][1].now < mlog[c][1].expiresAt

\* C25: MqttTokenManager.getAccessToken returns the cached token, with no
\* network call, while it is unexpired; otherwise it uses the refresh-token
\* grant if it holds a refresh token; and it asks for an OTP only when no
\* unexpired token is cached and either it holds no refresh token or the
\* refresh-token grant of this call has failed.
C25_OtpOnlyAsLastResort ==
    \A c \in ManagerCalls :
        ManagerCalled(c) =>
            /\ Len(mlog[c]) >= 2
            /\ mlog[c][1].ev = "call"
            /\ Unexpired(c) =>
                  /\ Len(mlog[c]) = 2
                  /\ mlog[c][2].ev = "return"
                  /\ mlog[c][2].accessToken = mlog[c][1].accessToken
            /\ ~Unexpired(c) /\ mlog[c][1].refreshToken # "" => mlog[c][2].ev = "refresh"
            /\ ~Unexpired(c) /\ mlog[c][1].refreshToken = "" => mlog[c][2].ev = "otp"
            /\ \A i \in 2..Len(mlog[c]) :
                  mlog[c][i].ev = "otp" =>
                      /\ ~Unexpired(c)
                      /\ \/ mlog[c][i - 1].ev = "refreshfailed"
                         \/ i = 2 /\ mlog[c][1].refreshToken = ""

\* All three cases have happened: a call has asked for an OTP with nothing
\* cached, a later call has returned the cached token, and, the token
\* expired, a call has used the refresh token, and on its failure asked for
\* an OTP.
C25_Witness ==
    \E i, j, k \in ManagerCalls :
        /\ ManagerCalled(i) /\ mlog[i][2].ev = "otp"
        /\ ManagerCalled(j) /\ Unexpired(j) /\ mlog[j][2].ev = "return"
        /\ ManagerCalled(k) /\ ~Unexpired(k) /\ mlog[k][2].ev = "refresh"
        /\ Len(mlog[k]) >= 4
        /\ mlog[k][3].ev = "refreshfailed" /\ mlog[k][4].ev = "otp"

\* C27: snapshot round trip: the engine fromJSON makes of toJSON(e) has the
\* value of e in every field of the snapshot (device id, salt, application
\* credential, version, session data with K0, K1, sync timestamp and
\* secondary values, mode, action, challenge, PIN, SMS code, defi, counter,
\* keys), and the cipher of e.
C27_SnapshotRoundTrip ==
    Applied =>
        /\ \A f \in OtpStateFields : res[1][f] = arg[1][f]
        /\ res[1].cipher = arg[1].cipher
        /\ toJSON(res[1]) = toJSON(arg[1])

\* An activated engine with session data, a challenge, a PIN and a defi has
\* gone through the round trip.
C27_Witness ==
    /\ Applied
    /\ arg[1].Kiw = "kiw1"
    /\ arg[1].data.iwK1 # Empty
    /\ arg[1].data.iwid = "id1"
    /\ arg[1].defi = 5
    /\ arg[1].iwalea # arg[2].iwalea
    /\ res[1].data.iwK1 = arg[1].data.iwK1

\* A round succeeds in this step: the Setup reply or a Finalize reply arrives
\* and the engine method takes it without failing.
RoundSucceeds ==
    \/ \E xml \in SetupReplies : ReplySetup(xml) /\ SetupReceive(otp, xml).out = "true"
    \/ \E xml \in FinalizeReplies, rnd \in RandomValues :
          /\ ReplyFinalize(xml, rnd)
          /\ FinalizeReceive(otp, xml, rnd).out \in {"OK", "OTP_TWICE", "ms"}
    \/ \E xml2 \in FinalizeReplies : ReplyMs(xml2) /\ MsReceive(otp, xml2).out = "OK"

\* C26: the engine state is persisted after every successful round: when a
\* Setup or Finalize reply has been taken, the stored snapshot is the
\* snapshot of the engine as that round left it.
C26_PersistedAfterEveryRound ==
    [][flow.pc # "none" /\ RoundSucceeds => durable' = <<toJSON(otp')>>]_vars

\* A snapshot of an engine that was never activated: K0 and K1 empty and no
\* working key.
NeverActivated(state) ==
    ~TruthyT(state.data.iwK0) /\ ~TruthyT(state.data.iwK1) /\ ~Truthy(state.Kiw)

\* C28: restoring an engine that was never activated is invalid: validateOTP
\* started on such a snapshot sends no request for it, draws no OTP code from
\* it and does not succeed.
C28_NeverActivatedRejected ==
    flow.pc # "none" /\ durable # NoSnapshot /\ NeverActivated(durable[1]) =>
        /\ Requests(trace) = <<>>
        /\ \A i \in 1..Len(trace) : trace[i].ev = "ret" => trace[i].value # "code"
        /\ flow.result # "success"

(***************************************************************************)
(* C29: the user PIN is excluded from diagnostic output: two runs of       *)
(* validateOTP that differ only in the PIN (same SMS code, same random     *)
(* values, same replies from the server) write the same diagnostic lines,  *)
(* in Setup, Finalize, getOtpCode and validateOTP itself, whatever the     *)
(* engine's mode and action.                                               *)
(***************************************************************************)
C29_PinExcludedFromDiagnostics ==
    Applied => res[1][1] = res[1][2]

(***************************************************************************)
(* C30: getAccessToken always terminates: whatever record is stored and    *)
(* however the refresh-token grant is answered, a call of getAccessToken,  *)
(* the client's or the app's, eventually returns a token or throws.        *)
(***************************************************************************)
C30_GetAccessTokenTerminates ==
    \A th \in Callers : (threads[th].pc # "idle") ~> (threads[th].pc = "idle")

(***************************************************************************)
(* C31: in every reachable state of the dispatcher, whatever the order of  *)
(* publish callbacks, messages and timer expiries, the correlation ids in  *)
(* the pending-waiter map are exactly those of the commands sendCommand    *)
(* issued that have not settled, each mapped to its own command, and a     *)
(* timer is live only for a command whose id is in the map.                *)
(***************************************************************************)
Waiting == {c \in CorrIds : responseHandlers[c] # 0}
Unsettled == {k \in Calls : promise[k] = "pending"}

C31_WaitersAreUnsettledCommands ==
    /\ Waiting = {corr[k] : k \in Unsettled}
    /\ \A k \in Unsettled : responseHandlers[corr[k]] = k
    /\ \A k \in Calls : timer[k] # 0 => (k \in Unsettled /\ corr[k] \in Waiting)

\* One command has left the map by its response, its timeout or a publish
\* error while another still waits with its timer live.
C31_Witness ==
    \E k, j \in Calls :
        /\ promise[k] \in {"resolved", "commandfailed", "timeout", "publisherror"}
        /\ corr[k] \notin Waiting
        /\ promise[j] = "pending"
        /\ corr[j] \in Waiting
        /\ timer[j] # 0

(***************************************************************************)
(* C32: an engine restored by fromJSON from a snapshot behaves like the    *)
(* engine that produced the snapshot: for the same replies from the server *)
(* it sends the same Setup and Finalize requests, applies the same synchro *)
(* updates to its session state and returns the same OTP code, and what it *)
(* does leaves the session state of the original engine alone.             *)
(***************************************************************************)
C32_RestoredBehavesLikeOriginal ==
    Applied =>
        /\ res[1].restored.requests = res[1].original.requests
        /\ res[1].restored.e.data = res[1].original.e.data
        /\ res[1].restored.code = res[1].original.code
        /\ res[1].originalAfter.data = arg.e.data

(***************************************************************************)
(* C33: the three digests of Finalize are taken over the challenge and the *)
(* active key, K1 if the action is upgrade and K0 otherwise: R0 over       *)
(* challenge;key;serial, R1 over challenge;key;K1, and R2 over             *)
(* challenge;key;PIN if the action is synchro and over challenge;key; with *)
(* nothing after it for every other action.                                *)
(***************************************************************************)
ActiveKey == IF arg.action = "upgrade" THEN arg.data.iwK1 ELSE arg.data.iwK0

C33_ThreeDigests ==
    Applied =>
        /\ res[1].R0 = sha256Hash(<<arg.challenge, ";", ActiveKey, ";",
                                    <<arg.device_id, "/_/", arg.iwalea>> >>)
        /\ res[1].R1 = sha256Hash(<<arg.challenge, ";", ActiveKey, ";", arg.data.iwK1>>)
        /\ arg.action = "synchro" =>
              res[1].R2 = sha256Hash(<<arg.challenge, ";", ActiveKey, ";", arg.codepin>>)
        /\ arg.action # "synchro" =>
              res[1].R2 = sha256Hash(<<arg.challenge, ";", ActiveKey, ";", "">>)

\* The digests of an engine in action synchro whose K1 is not its K0, and
\* whose R2 therefore holds its PIN.
C33_Witness ==
    /\ Applied
    /\ arg.action = "synchro"
    /\ arg.data.iwK0 # arg.data.iwK1
    /\ arg.codepin \in {"5678", "0000"}
    /\ res[1].R2[2][5] = arg.codepin
    /\ res[1].R0 # res[1].R1

(***************************************************************************)
(* C34: decodeOaep works through a ciphertext block by block: L bytes are  *)
(* ceil(L/128) blocks of 128 bytes, of which the last may be shorter;      *)
(* every block, a shorter last one included, is decrypted, and the         *)
(* plaintexts are put together in the order of the blocks.                 *)
(***************************************************************************)
C34_BlockByBlock ==
    (Applied /\ arg.key.k = blockSize) =>
        /\ res[1].thrown = <<>>
        /\ Len(res[1].plain) = Ceil(BufferLength(arg.enc), blockSize)
        /\ \A x \in 1..Len(arg.enc) :
              arg.enc[x].len = blockSize =>
                 res[1].plain[x] = decodeOaepBlock(arg.enc[x].val, arg.key.n)

(***************************************************************************)
(* C35: oaepDecrypt fails with the decode error exactly when the unmasked  *)
(* data block has no byte 0x01 after the label hash; otherwise it returns  *)
(* the bytes that follow the first such byte, and it returns no payload    *)
(* unless it found one.                                                    *)
(***************************************************************************)
AfterLabelHash == [i \in 1..(Len(arg) - hLen) |-> arg[hLen + i]]

C35_SeparatorOrDecodeError ==
    Applied =>
        /\ res[1].thrown <=> (\A i \in DOMAIN AfterLabelHash : AfterLabelHash[i] # 1)
        /\ res[1].thrown => res[1].payload = <<>>
        /\ ~res[1].thrown =>
              \E p \in DOMAIN AfterLabelHash :
                 /\ AfterLabelHash[p] = 1
                 /\ \A i \in 1..(p - 1) : AfterLabelHash[i] # 1
                 /\ res[1].payload =
                       [i \in 1..(Len(AfterLabelHash) - p) |-> AfterLabelHash[p + i]]

\* A data block whose label hash holds bytes 0x01 and whose separator comes
\* after a zero byte: the payload is what follows the separator, a later
\* 0x01 included.
C35_Witness ==
    /\ Applied
    /\ arg[1] = 1
    /\ AfterLabelHash = <<0, 1, 2, 1>>
    /\ res[1].payload = <<2, 1>>

(***************************************************************************)
(* C36: a Setup reply in mode otp whose status is OK but which carries no  *)
(* challenge is a malformed response: Setup raises a configuration fault,  *)
(* does not report success and does not store the absent challenge.        *)
(***************************************************************************)
C36_MissingChallengeIsFault ==
    [][\A xml \in SetupReplies :
         (otp.mode = "otp" /\ xml # Failed /\ xml.err = "OK" /\ xml.challenge = Absent
             /\ ReplySetup(xml)) =>
            /\ otp'.challenge = otp.challenge
            /\ trace'[Len(trace')].ev = "ret"
            /\ trace'[Len(trace')].value = "ConfigException"]_vars

(***************************************************************************)
(* C37: activationFinalize returns OK only if every reply it received in   *)
(* that call had status OK, the reply to the ms-mode request of a          *)
(* secondary exchange included; a reply with another status is never       *)
(* synchronised into the session state.                                    *)
(***************************************************************************)
C37_OkOnlyAfterOkReplies ==
    /\ [](JustReturned("activationFinalize") /\ trace[Len(trace)].value = "OK" =>
             \A i \in 1..Len(Replies(LastCall)) :
                /\ Replies(LastCall)[i].xml # Failed
                /\ Replies(LastCall)[i].xml.err = "OK")
    /\ [][\A xml \in FinalizeReplies :
             (xml # Failed /\ xml.err # "OK" /\ (ReplyFinalize(xml, "rnd1") \/ ReplyMs(xml))) =>
                otp'.data = otp.data]_vars

(***************************************************************************)
(* C38: when the first Finalize reply has a status other than OK,          *)
(* activationFinalize returns NOK and leaves the whole session state as it *)
(* was: sync timestamp, session id, K0, K1, defi, challenge, action and    *)
(* the secondary channel's id, value and count; and it sends no further    *)
(* request.                                                                *)
(***************************************************************************)
C38_NokLeavesSession ==
    [][\A xml \in FinalizeReplies, rnd \in RandomValues :
         (xml # Failed /\ xml.err # "OK" /\ call.op = "activationFinalize"
             /\ ReplyFinalize(xml, rnd)) =>
            /\ trace' = trace \o <<Rep(xml), Ret("activationFinalize", "NOK", Empty, NoMessage)>>
            /\ otp'.data = otp.data
            /\ otp'.defi = otp.defi
            /\ otp'.challenge = otp.challenge
            /\ otp'.action = otp.action
            /\ otp' = otp
            /\ pc' = "idle"]_vars

\* activationFinalize has returned NOK on an engine that was activated
\* before: its keys are those Setup seeded.
C38_Witness ==
    /\ JustReturned("activationFinalize")
    /\ trace[Len(trace)].value = "NOK"
    /\ Replies(LastCall)[1].xml.err = "NOK"
    /\ otp.data.iwK0 = generateKma(otp, otp.codepin)
    /\ otp.cipher = "kiw1"

(***************************************************************************)
(* C39: for every pair of 32-bit words w0, w1 of the digest the OTP number *)
(* is n = (w0 mod 2^28) * 1024 + (w1 mod 1024): it is not negative, it is  *)
(* below 2^38, and nothing of it is lost to wrap-around or to a change of  *)
(* sign.  n is res[1], three limbs to the radix 2^16.                      *)
(***************************************************************************)
C39_OtpNumberExact ==
    Applied =>
        /\ res[1][1] \in 0..(2^6 - 1)
        /\ res[1][2] \in 0..(2^16 - 1)
        /\ res[1][3] \in 0..(2^16 - 1)
        /\ res[1][3] % 1024 = arg[2][2] % 1024
        /\ res[1][1] * 2^22 + res[1][2] * 2^6 + (res[1][3] \div 1024)
              = (arg[1][1] % 2^12) * 2^16 + arg[1][2]

\* Two words with every bit set: the number is 2^38 - 1.
C39_Witness ==
    /\ Applied
    /\ arg = <<(<<65535, 65535>>), (<<65535, 65535>>)>>
    /\ res[1] = <<63, 65535, 65535>>

(***************************************************************************)
(* C40: the device identity does not change after creation: no step of     *)
(* activationStart, activationFinalize (with the synchro calls it makes)   *)
(* or getOtpCode changes the device id, the salt, the mac id or the        *)
(* version, so the serial and the Kma of every PIN stay what they were.    *)
(***************************************************************************)
C40_IdentityImmutable ==
    [][/\ otp'.device_id = otp.device_id
       /\ otp'.iwalea = otp.iwalea
       /\ otp'.macid = otp.macid
       /\ otp'.version = otp.version
       /\ getSerial(otp') = getSerial(otp)
       /\ \A pin \in PinCodes : generateKma(otp', pin) = generateKma(otp, pin)]_vars

\* An activation that went through Setup, Finalize and the ms-mode request,
\* the server having issued an id, on the engine as it was created.
C40_Witness ==
    /\ JustReturned("activationFinalize")
    /\ trace[Len(trace)].value = "OK"
    /\ Len(Replies(LastCall)) = 2
    /\ Truthy(Replies(LastCall)[2].xml.id)
    /\ otp.data.iwid = Replies(LastCall)[2].xml.id
    /\ getSerial(otp) = getSerial(ActivatingOtp)

============================================================================
